---- MODULE Spec2Model ----
(***************************************************************************)
(* A model of the operation engine of ibex-db-lambda                       *)
(* (src/src/operations_full_iceberg.py, class FullIcebergOperations) and   *)
(* of the filter builder it uses (src/src/query_builder.py).               *)
(*                                                                         *)
(* One engine instance (one process) is modelled together with the         *)
(* catalog it talks to.  A catalog table is the sequence of its metadata   *)
(* documents; the metadata pointer of a document is its index in that      *)
(* sequence, and iceberg_scan(pointer) reads the rows of that document.    *)
(*                                                                         *)
(* Strings that the code concatenates, replaces in or joins are sequences  *)
(* of one-character strings, so that the string operations are computed.   *)
(* Fixed fragments of SQL text are kept as single tokens.                  *)
(***************************************************************************)
EXTENDS Integers, Sequences, FiniteSets, Bags, TLC

VARIABLES
    catalog,            \* table identifier -> sequence of metadata documents
    metadata_cache,     \* self._metadata_cache: identifier -> <<path, time>>
    query_cache,        \* self._query_cache: insertion-ordered entries
    last_compact_check, \* self._last_compact_check
    clock,              \* time.time()
    commits,            \* number of snapshots committed so far (bounded)
    resp,               \* the last operation and the response it returned
    namespaces,         \* the namespaces of the catalog
    _iceberg_ops,       \* the global instance: Null, or the number of the
                        \* constructor call that made it
    _iceberg_ops_init_failed,
    constructor_calls,  \* number of calls of FullIcebergOperations()
    in_flight,          \* the call that has not returned yet (its request
                        \* and the values of its local variables), NoCall
                        \* when every call has returned
    GLOBAL_CACHE,       \* lambda_handler_optimized: the OrderedDict, as the
                        \* sequence of its entries
    connections         \* db_pool.connections: connection key -> the tables
                        \* of that connection, each the bag of its rows

\* the globals of get_iceberg_ops() and the call in progress
handler_optimized == <<GLOBAL_CACHE, connections>>

process == <<_iceberg_ops, _iceberg_ops_init_failed, constructor_calls,
             in_flight, handler_optimized>>

vars == <<catalog, metadata_cache, query_cache, last_compact_check, clock,
          commits, resp, namespaces, process>>

(***************************************************************************)
(* Bounds of the model.                                                    *)
(***************************************************************************)
MaxCommits == 3
MaxClock == 360
MaxCached == 1

(***************************************************************************)
(* Program constants.                                                      *)
(***************************************************************************)
_cache_ttl == 300
_query_cache_ttl == 60
QueryCacheLimit == 100
CheckInterval == 100
MinFilesToCompact == 10
AutoCompactInterval == 3600
\* CompactRequest.snapshot_retention_hours: the default, and timedelta(hours=1)
DefaultRetentionHours == 168
SecondsPerHour == 3600

Null == -1

(***************************************************************************)
(* Strings.                                                                *)
(***************************************************************************)
Replace(s, old, new) == [i \in 1..Len(s) |-> IF s[i] = old THEN new ELSE s[i]]

RECURSIVE Join(_, _)
Join(parts, sep) ==
    IF Len(parts) = 0 THEN <<>>
    ELSE IF Len(parts) = 1 THEN parts[1]
    ELSE parts[1] \o sep \o Join(Tail(parts), sep)

Digits == <<"0", "1", "2", "3", "4", "5", "6", "7", "8", "9">>

RECURSIVE IntToStr(_)
IntToStr(n) ==
    IF n < 10 THEN <<Digits[n + 1]>>
    ELSE IntToStr(n \div 10) \o <<Digits[(n % 10) + 1]>>

BoolToStr(b) == IF b THEN <<"True">> ELSE <<"False">>

\* hashlib.md5(...).hexdigest(): a digest of the text, taken to be
\* collision-free on the texts of the model
MD5(text) == <<"md5", text>>

\* json.dumps(record, sort_keys=True) of a user record {age: n}
JsonDumps(record) == <<"{", "\"age\"", ": ">> \o IntToStr(record.age) \o <<"}">>

(***************************************************************************)
(* Requests: tenants, namespaces, records, filters.                        *)
(***************************************************************************)
TenantHyphen == <<"a", "-", "b">>
TenantUnderscore == <<"a", "_", "b">>
TenantColon == <<"a", "-", "b", ":", "c">>
NamespaceColon == <<"c", ":", "d">>
NamespaceShort == <<"d">>
TableName == <<"t">>

\* (tenant_id, namespace) of the requests of the model
Callers ==
    { [tenant_id |-> TenantHyphen, namespace |-> NamespaceColon],
      [tenant_id |-> TenantUnderscore, namespace |-> NamespaceColon],
      [tenant_id |-> TenantColon, namespace |-> NamespaceShort] }

Ages == {30, 31}
Records == [age : Ages]

Filter(f, o, v) == [field |-> f, operator |-> o, value |-> v]
NoFilters == <<>>
\* filters of the requests of the model: none, or one eq condition on age
UpdateFilterLists == { <<Filter("age", "eq", 30)>> }
FilterLists == {NoFilters} \cup UpdateFilterLists
Patches == { [age |-> 31] }
\* updates that name system columns: request.updates is any dict
IdentityPatches == { [_version |-> 1], [_tenant_id |-> TenantUnderscore] }
\* filters on either age of the model
RowFilterLists == { <<Filter("age", "eq", a)>> : a \in Ages }

\* a like condition on the text column _record_id: the digest of {age: 30}
LikeFilterLists ==
    { <<Filter("_record_id", "like", MD5(JsonDumps([age |-> 30])))>> }

_get_namespace(tenant_id, namespace) ==
    Replace(tenant_id \o <<"_">> \o namespace, "-", "_")

_get_table_identifier(tenant_id, namespace, table) ==
    _get_namespace(tenant_id, namespace) \o <<".">> \o table

\* whether the tokens of sub follow each other somewhere in message
Contains(message, sub) ==
    \E i \in 0..(Len(message) - Len(sub)) :
        \A j \in 1..Len(sub) : message[i + j] = sub[j]

TableOf(c) == _get_table_identifier(c.tenant_id, c.namespace, TableName)

(***************************************************************************)
(* Rows and metadata documents.                                            *)
(***************************************************************************)
\* the system columns written by write() and the user column age; the
\* _timestamp column is left out of the model's rows
Row(tenant_id, record_id, version, deleted, deleted_at, age) ==
    [_tenant_id |-> tenant_id, _record_id |-> record_id, _version |-> version,
     _deleted |-> deleted, _deleted_at |-> deleted_at, age |-> age]

\* one metadata document of a table: the data files of its scan plan, each
\* the bag of the rows it holds, and the length of its snapshot history.  All
\* data files of the model are smaller than the small-file threshold.
Doc(files, snapshots) == [files |-> files, snapshots |-> snapshots]

EmptyDoc == Doc(<<>>, 0)

RECURSIVE BagSum(_)
BagSum(bags) ==
    IF Len(bags) = 0 THEN EmptyBag ELSE bags[1] (+) BagSum(Tail(bags))

\* the rows of all data files of a document
Rows(doc) == BagSum(doc.files)

TableExists(id) == id \in DOMAIN catalog
\* catalog.load_table(id).metadata_location
MetadataLocation(id) == Len(catalog[id])
CurrentDoc(id) == catalog[id][Len(catalog[id])]
\* iceberg_scan('<metadata_path>')
IcebergScan(id, path) == Rows(catalog[id][path])

\* table.append(batch): a new snapshot with the batch in a new data file
AppendDoc(doc, batch) == Doc(Append(doc.files, batch), doc.snapshots + 1)

(***************************************************************************)
(* The filter builder (query_builder.py) and the engine's evaluation of    *)
(* the conditions it emits.                                                *)
(***************************************************************************)
operator_map ==
    [eq |-> "=", ne |-> "!=", gt |-> ">", gte |-> ">=", lt |-> "<",
     lte |-> "<=", in |-> "IN", like |-> "LIKE"]

param_style == "?"

\* TypeSafeQueryBuilder._build_single_filter: <<sql text, parameters>>
_build_single_filter(f) ==
    IF f.operator = "in"
    THEN <<<<f.field, " IN (">>
             \o Join([i \in 1..Len(f.value) |-> <<param_style>>], <<", ">>)
             \o <<")">>,
           f.value>>
    ELSE <<<<f.field, " ", operator_map[f.operator], " ", param_style>>,
           <<f.value>>>>

RECURSIVE ConcatAll(_)
ConcatAll(seqs) ==
    IF Len(seqs) = 0 THEN <<>> ELSE seqs[1] \o ConcatAll(Tail(seqs))

\* TypeSafeQueryBuilder._build_filters(filters, ""): <<sql text, parameters>>
_build_filters(filters) ==
    IF Len(filters) = 0 THEN <<<<>>, <<>>>>
    ELSE <<Join([i \in 1..Len(filters) |-> _build_single_filter(filters[i])[1]],
                <<" AND ">>),
           ConcatAll([i \in 1..Len(filters) |-> _build_single_filter(filters[i])[2]])>>

\* the engine's value of  <field> <op> ?  on row t with the bound parameter;
\* a comparison with NULL is not true.  The like patterns of the model hold
\* no wildcard and are matched against text columns: LIKE is then equality.
FilterHolds(t, f) ==
    IF f.operator = "like" THEN t[f.field] = f.value
    ELSE
    /\ t[f.field] # Null
    /\ CASE f.operator = "eq" -> t[f.field] = f.value
         [] f.operator = "ne" -> t[f.field] # f.value
         [] f.operator = "gt" -> t[f.field] > f.value
         [] f.operator = "gte" -> t[f.field] >= f.value
         [] f.operator = "lt" -> t[f.field] < f.value
         [] f.operator = "lte" -> t[f.field] <= f.value
         [] f.operator = "in" ->
                \E i \in 1..Len(f.value) : t[f.field] = f.value[i]

FiltersHold(t, filters) ==
    \A i \in 1..Len(filters) : FilterHolds(t, filters[i])

\* WHERE _tenant_id = '<tenant_id>' over the rows of a scan.  The tenant
\* ids of the model hold no quote, so the literal is the tenant id.
TenantRows(rows, tenant_id) ==
    { t \in BagToSet(rows) : t._tenant_id = tenant_id }

RecordIds(S) == { t._record_id : t \in S }

\* the rows of S that ROW_NUMBER() OVER (PARTITION BY _record_id ORDER BY
\* _version DESC) may number 1 for record_id
Top(S, record_id) ==
    { t \in S : /\ t._record_id = record_id
                /\ \A u \in S : u._record_id = record_id
                                  => u._version <= t._version }

\* the possible sets of rows with rn = 1: one row per _record_id, of the
\* greatest _version; the engine picks any one of several such rows
Rank1Choices(S) ==
    { { f[r] : r \in RecordIds(S) } :
        f \in { g \in [RecordIds(S) -> S] :
                  \A r \in RecordIds(S) : g[r] \in Top(S, r) } }

(***************************************************************************)
(* The metadata cache and the query-result cache.                          *)
(***************************************************************************)
\* an entry that is still served when its age is the time to live
MetadataFreshInclusive(entry_time, now) == now - entry_time <= _cache_ttl

\* _get_metadata_path: the entry is served while now - cached_time < ttl
MetadataFresh(entry_time, now) == now - entry_time < _cache_ttl

MetadataHit(id) ==
    /\ id \in DOMAIN metadata_cache
    /\ MetadataFresh(metadata_cache[id][2], clock)

\* _get_metadata_path raises when it has to load a table that is missing
MetadataPathRaises(id) == ~MetadataHit(id) /\ ~TableExists(id)

\* the path _get_metadata_path returns
_get_metadata_path(id) ==
    IF MetadataHit(id) THEN metadata_cache[id][1] ELSE MetadataLocation(id)

\* the metadata cache after _get_metadata_path returned
MetadataCacheAfterGet(id) ==
    IF MetadataHit(id) THEN metadata_cache
    ELSE [k \in DOMAIN metadata_cache \cup {id} |->
            IF k = id THEN <<MetadataLocation(id), clock>> ELSE metadata_cache[k]]

\* if table_identifier in self._metadata_cache: del self._metadata_cache[...]
InvalidateMetadata(cache, id) ==
    [k \in DOMAIN cache \ {id} |-> cache[k]]

\* str(request.filters): the repr of the list of Filter objects
StrOfFilter(f) ==
    <<"Filter(field='", f.field, "', operator='", f.operator, "', value=">>
        \o IntToStr(f.value) \o <<")">>

StrOfFilters(filters) ==
    <<"[">> \o Join([i \in 1..Len(filters) |-> StrOfFilter(filters[i])], <<", ">>)
        \o <<"]">>

\* query(): cache_key_parts joined by ":" and digested.  The requests of the
\* model carry the default projection and no aggregations, group_by, having,
\* sort or limit.
QueryCacheKey(req) ==
    MD5(Join(<< req.tenant_id,
                req.namespace,
                req.table,
                IF Len(req.filters) > 0 THEN StrOfFilters(req.filters) ELSE <<>>,
                <<"['*']">>,
                <<>>, <<>>, <<>>, <<>>, <<>>,
                BoolToStr(req.include_deleted) >>, <<":">>))

\* position of the entry of key in the query cache, 0 when there is none
QueryCachePos(key) ==
    IF \E i \in 1..Len(query_cache) : query_cache[i].key = key
    THEN CHOOSE i \in 1..Len(query_cache) : query_cache[i].key = key
    ELSE 0

\* query(): the entry is served while now - cached_time < ttl
QueryFresh(entry_time, now) == now - entry_time < _query_cache_ttl

QueryCacheHit(key) ==
    /\ QueryCachePos(key) # 0
    /\ QueryFresh(query_cache[QueryCachePos(key)].time, clock)

\* self._query_cache[key] = (response.dict(), time.time()), then the eviction
\* of the first key of the dict when it holds more than 100 entries
\* the result is stored and no entry is evicted
QueryCacheStoreAll(cache, key, result, now) ==
    LET entry == [key |-> key, result |-> result, time |-> now, used |-> now]
    IN  IF \E i \in 1..Len(cache) : cache[i].key = key
        THEN [cache EXCEPT
                ![CHOOSE i \in 1..Len(cache) : cache[i].key = key] = entry]
        ELSE Append(cache, entry)

\* (used: the time of the last store or hit of the entry, which the code
\* does not keep)
QueryCacheStore(cache, key, result, now) ==
    LET entry == [key |-> key, result |-> result, time |-> now, used |-> now]
        pos == IF \E i \in 1..Len(cache) : cache[i].key = key
               THEN CHOOSE i \in 1..Len(cache) : cache[i].key = key
               ELSE 0
        stored == IF pos # 0 THEN [cache EXCEPT ![pos] = entry]
                  ELSE Append(cache, entry)
    IN  IF Len(stored) > QueryCacheLimit THEN Tail(stored) ELSE stored

(***************************************************************************)
(* Executed SQL text.                                                      *)
(***************************************************************************)
\* table.metadata_location as text
PathText(id, path) == id \o <<"/metadata/v">> \o IntToStr(path) \o <<".json">>

NoSql == [text |-> <<>>, params |-> <<>>]

\* query(): the statement and the parameters passed to conn.execute
QuerySql(req, id, path) ==
    LET built == _build_filters(req.filters)
    IN  [ text |->
            <<"WITH ranked_records AS (SELECT *, ROW_NUMBER() OVER (PARTITION BY _record_id ORDER BY _version DESC) as rn FROM iceberg_scan('">>
            \o PathText(id, path)
            \o <<"') WHERE _tenant_id = '">> \o req.tenant_id
            \o <<"') SELECT * FROM ranked_records WHERE rn = 1 ">>
            \o (IF req.include_deleted THEN <<>> ELSE <<"AND _deleted IS NOT TRUE">>)
            \o (IF Len(built[1]) > 0 THEN <<" AND (">> \o built[1] \o <<")">> ELSE <<>>),
          params |-> built[2] ]

\* update(): the statement and the parameters passed to conn.execute
UpdateSql(req, id, path) ==
    LET built == _build_filters(req.filters)
    IN  [ text |->
            <<"WITH ranked_records AS (SELECT *, ROW_NUMBER() OVER (PARTITION BY _record_id ORDER BY _version DESC) as rn FROM iceberg_scan('">>
            \o PathText(id, path)
            \o <<"') WHERE _tenant_id = '">> \o req.tenant_id
            \o <<"' AND _deleted IS NOT TRUE AND (">> \o built[1]
            \o <<")) SELECT * FROM ranked_records WHERE rn = 1">>,
          params |-> built[2] ]

(***************************************************************************)
(* Responses.                                                              *)
(***************************************************************************)
\* the last request and what was returned for it:
\*   records, count   data.records / records_written, _updated, _deleted
\*   cache_hit        query_metadata.cache_hit
\*   served           where a QUERY, UPDATE or DELETE took its rows from: the
\*                    "query_cache", the scan of a path of the
\*                    "metadata_cache", or of a path loaded from the "catalog"
\*   age              the age of the cache entry that was served
\*   path             the metadata pointer that was scanned
\*   sql              the statement executed on the query engine
\*   mode             the mode of a WRITE request (WriteRequest.mode)
\*   compaction_recommended   data.compaction_recommended of WRITE
\*   trigger          what the call of _trigger_async_compact did, or "none"
\*   limit, offset    the fields of a sorted QUERY request
\*   page             data.records of a sorted QUERY, in the order returned
\*   table_created, table_existed   data of CREATE_TABLE
\*   table_dropped, table_existed   data of DROP_TABLE
\*   namespace_dropped, namespace_existed   data of DROP_NAMESPACE
\*   catalog_calls    the drop calls made on the catalog, in order
\*   records_inserted, records_updated   data of UPSERT (count holds
\*                    total_affected)
\*   snapshot_retention_hours   the field of a COMPACT request
\*   snapshots_expired          data.stats.snapshots_expired of COMPACT
\*   deadline_expired whether SIGALRM was delivered while the request ran
\*   raised           the exception that reached lambda_handler, or "none"
\*   message          str(e) of that exception, in lower case, as words
\*   fault            what is wrong with the event or its body, or "none"
\*   handler          the module whose code answered
\*   table, results   lambda_handler_optimized: the table of the payload and
\*                    data.results of BATCH
\*   compacted        data.compacted of COMPACT
\*   files_rewritten  data.files_rewritten of HARD_DELETE
NoResp ==
    [op |-> "NONE", tenant_id |-> <<>>, namespace |-> <<>>, filters |-> <<>>,
     include_deleted |-> FALSE, success |-> TRUE, code |-> "", records |-> {},
     count |-> 0, cache_hit |-> FALSE, served |-> "none", age |-> 0,
     path |-> 0, sql |-> NoSql, compacted |-> FALSE, files_rewritten |-> 0,
     table_created |-> FALSE, table_existed |-> FALSE,
     mode |-> "append", trigger |-> "none",
     snapshot_retention_hours |-> DefaultRetentionHours,
     snapshots_expired |-> 0,
     deadline_expired |-> FALSE, raised |-> "none", message |-> <<>>,
     table_dropped |-> FALSE, catalog_calls |-> <<>>,
     records_inserted |-> 0, records_updated |-> 0, fault |-> "none",
     namespace_dropped |-> FALSE, namespace_existed |-> FALSE,
     limit |-> Null, offset |-> Null, page |-> <<>>,
     compaction_recommended |-> FALSE,
     handler |-> "lambda_handler", table |-> <<>>, results |-> <<>>]

Request(op, c, filters, include_deleted) ==
    [NoResp EXCEPT !.op = op, !.tenant_id = c.tenant_id,
                   !.namespace = c.namespace, !.filters = filters,
                   !.include_deleted = include_deleted]

Failure(request, code) == [request EXCEPT !.success = FALSE, !.code = code]

(***************************************************************************)
(* Initial state: a constructed engine instance (__init__) and a catalog   *)
(* holding the empty table that both hyphen and underscore tenants address.*)
(***************************************************************************)
SharedTable ==
    _get_table_identifier(TenantHyphen, NamespaceColon, TableName)

\* lambda_handler_optimized: conn_key of get_connection()
ConnKey(tenant_id, namespace) == tenant_id \o <<":">> \o namespace

\* lambda_handler_optimized at the start of the process: an empty cache,
\* and the connection of the first caller with the empty table it reads
PoolStarted ==
    /\ GLOBAL_CACHE = <<>>
    /\ connections =
          (ConnKey(TenantHyphen, NamespaceColon) :> (TableName :> EmptyBag))

\* no call is in progress
NoCall == [op |-> "none"]
Idle == in_flight.op = "none"

\* get_iceberg_ops() has constructed the instance, once
Constructed ==
    /\ _iceberg_ops = 1
    /\ _iceberg_ops_init_failed = FALSE
    /\ constructor_calls = 1
    /\ in_flight = NoCall
    /\ PoolStarted

Init ==
    /\ catalog = (SharedTable :> <<EmptyDoc>>)
    /\ metadata_cache = <<>>
    /\ query_cache = <<>>
    /\ last_compact_check = Null
    /\ clock = 0
    /\ commits = 0
    /\ resp = NoResp
    /\ namespaces = {_get_namespace(TenantHyphen, NamespaceColon)}
    /\ Constructed

\* the catalog after a commit of doc to table id
Commit(id, doc) == [catalog EXCEPT ![id] = Append(@, doc)]

(***************************************************************************)
(* WRITE                                                                   *)
(***************************************************************************)
\* write(): the enrichment of one record with the system columns
Enrich(tenant_id, record) ==
    Row(tenant_id, MD5(JsonDumps(record)), 1, FALSE, Null, record.age)

\* write(): the opportunistic compaction probe on the reloaded table
CompactionRecommended(doc) ==
    /\ doc.snapshots % CheckInterval = 0
    /\ Len(doc.files) >= MinFilesToCompact

\* write(): the auto-compaction check; true when the trigger is called
AutoCompactDue(recommended) ==
    /\ last_compact_check # Null
    /\ clock - last_compact_check > AutoCompactInterval
    /\ recommended

\* WriteMode
WriteModes == {"append", "overwrite", "upsert"}

\* the opportunistic probe runs to its end, or raises inside its try block
ProbeOutcomes == {"completes", "raises"}

\* _trigger_async_compact(): outside Lambda it returns at once; in Lambda
\* it creates the invocation client and invokes the function, and either
\* call may raise
TriggerOutcomes == {"not_in_lambda", "invoked", "invoke_raises",
                    "client_raises"}

\* _trigger_async_compact(): only lambda_client.invoke is inside the try
\* block, so a failure of boto3.client('lambda') leaves the function
TriggerRaises(trigger) == trigger = "client_raises"

\* write(): mode is accepted by WriteRequest and never read; the batch is
\* always appended
WriteRecords(c, record, mode, probe, trigger) ==
    LET id == TableOf(c)
        request == [Request("WRITE", c, NoFilters, FALSE) EXCEPT !.mode = mode]
    IN
    /\ commits < MaxCommits
    /\ IF ~TableExists(id)
       THEN /\ resp' = Failure(request, "WRITE_ERROR")
            /\ UNCHANGED <<namespaces, catalog, metadata_cache, query_cache,
                           last_compact_check, clock, commits>>
       ELSE LET doc == AppendDoc(CurrentDoc(id),
                                 SetToBag({Enrich(c.tenant_id, record)}))
                recommended == /\ probe = "completes"
                               /\ CompactionRecommended(doc)
                due == AutoCompactDue(recommended)
                raised == due /\ TriggerRaises(trigger)
                called == [request EXCEPT
                              !.trigger = IF due THEN trigger ELSE "none",
                              !.compaction_recommended = recommended]
            IN  /\ catalog' = Commit(id, doc)
                /\ commits' = commits + 1
                /\ metadata_cache' = InvalidateMetadata(metadata_cache, id)
                /\ last_compact_check' =
                      IF raised THEN last_compact_check
                      ELSE IF last_compact_check = Null \/ due
                           THEN clock ELSE last_compact_check
                /\ resp' = IF raised
                           THEN Failure([called EXCEPT
                                           !.compaction_recommended = FALSE],
                                        "WRITE_ERROR")
                           ELSE [called EXCEPT !.count = 1]
                /\ UNCHANGED <<namespaces, query_cache, clock>>

\* a WRITE with the default mode whose probe and trigger calls succeed
Write(c, record) == WriteRecords(c, record, "append", "completes", "invoked")

(***************************************************************************)
(* QUERY                                                                   *)
(***************************************************************************)
\* the rows the SELECT of query() returns from the rows numbered 1
QueryRows(ranked, req) ==
    { t \in ranked : /\ (req.include_deleted \/ t._deleted # TRUE)
                     /\ FiltersHold(t, req.filters) }

QueryRequest(c, filters, include_deleted) ==
    [tenant_id |-> c.tenant_id, namespace |-> c.namespace, table |-> TableName,
     filters |-> filters, include_deleted |-> include_deleted]

Query(c, filters, include_deleted) ==
    LET req == QueryRequest(c, filters, include_deleted)
        request == Request("QUERY", c, filters, include_deleted)
        key == QueryCacheKey(req)
        pos == QueryCachePos(key)
        id == TableOf(c)
    IN
    IF QueryCacheHit(key)
    THEN \* the cached dict is changed in place and returned
         /\ query_cache' = [query_cache EXCEPT ![pos].result.cache_hit = TRUE,
                                               ![pos].used = clock]
         /\ resp' = [request EXCEPT
                       !.records = query_cache[pos].result.records,
                       !.count = query_cache[pos].result.row_count,
                       !.cache_hit = TRUE,
                       !.served = "query_cache",
                       !.age = clock - query_cache[pos].time]
         /\ UNCHANGED <<namespaces, catalog, metadata_cache, last_compact_check, clock,
                        commits>>
    ELSE IF MetadataPathRaises(id)
    THEN \* table doesn't exist: an empty success, not cached
         /\ resp' = request
         /\ UNCHANGED <<namespaces, catalog, metadata_cache, query_cache,
                        last_compact_check, clock, commits>>
    ELSE LET path == _get_metadata_path(id)
             hit == MetadataHit(id)
         IN  /\ pos # 0 \/ Len(query_cache) < MaxCached
             /\ \E ranked \in Rank1Choices(TenantRows(IcebergScan(id, path),
                                                   req.tenant_id)) :
               LET data == QueryRows(ranked, req)
                   result == [records |-> data, row_count |-> Cardinality(data),
                              cache_hit |-> hit]
               IN
                   /\ metadata_cache' = MetadataCacheAfterGet(id)
                   /\ query_cache' = QueryCacheStore(query_cache, key, result, clock)
                   /\ resp' = [request EXCEPT
                                 !.records = data,
                                 !.count = Cardinality(data),
                                 !.cache_hit = hit,
                                 !.served = IF hit THEN "metadata_cache"
                                            ELSE "catalog",
                                 !.age = IF hit THEN clock - metadata_cache[id][2]
                                         ELSE 0,
                                 !.path = path,
                                 !.sql = QuerySql(req, id, path)]
                   /\ UNCHANGED <<namespaces, catalog, last_compact_check, clock, commits>>

(***************************************************************************)
(* UPDATE and soft DELETE                                                  *)
(***************************************************************************)
\* record.update(request.updates), then the selection of the schema's columns
ApplyPatch(t, patch) ==
    [k \in DOMAIN t |-> IF k \in DOMAIN patch THEN patch[k] ELSE t[k]]

\* update(): the new version made of one selected row
NewVersion(t, patch) ==
    ApplyPatch([t EXCEPT !._version = @ + 1], patch)

\* update(): the rows the CTE of update() ranks
UpdateCandidates(rows, tenant_id, filters) ==
    { t \in TenantRows(rows, tenant_id) :
        t._deleted # TRUE /\ FiltersHold(t, filters) }

\* the batch update() appends: one new version per selected row
UpdateBatch(selected, patch) ==
    [n \in { NewVersion(t, patch) : t \in selected } |->
        Cardinality({ t \in selected : NewVersion(t, patch) = n })]

\* update(request) with the response named after the calling operation
UpdateCore(op, error_code, c, filters, patch) ==
    LET id == TableOf(c)
        request == Request(op, c, filters, FALSE)
        req == [tenant_id |-> c.tenant_id, filters |-> filters]
    IN
    /\ commits < MaxCommits
    /\ IF MetadataPathRaises(id)
       THEN /\ resp' = Failure(request, error_code)
            /\ UNCHANGED <<namespaces, catalog, metadata_cache, query_cache,
                           last_compact_check, clock, commits>>
       ELSE LET path == _get_metadata_path(id)
                hit == MetadataHit(id)
            IN  \E selected \in Rank1Choices(
                     UpdateCandidates(IcebergScan(id, path), c.tenant_id, filters)) :
                  /\ metadata_cache' = MetadataCacheAfterGet(id)
                  /\ resp' = [request EXCEPT
                                !.count = Cardinality(selected),
                                !.served = IF hit THEN "metadata_cache"
                                           ELSE "catalog",
                                !.age = IF hit THEN clock - metadata_cache[id][2]
                                        ELSE 0,
                                !.path = path,
                                !.sql = UpdateSql(req, id, path)]
                  /\ IF selected = {}
                     THEN UNCHANGED <<namespaces, catalog, commits>>
                     ELSE /\ catalog' = Commit(id, AppendDoc(CurrentDoc(id),
                                                   UpdateBatch(selected, patch)))
                          /\ commits' = commits + 1
                  /\ UNCHANGED <<namespaces, query_cache, last_compact_check, clock>>

Update(c, filters, patch) ==
    UpdateCore("UPDATE", "UPDATE_ERROR", c, filters, patch)

\* delete(): an update that sets _deleted and _deleted_at
Delete(c, filters) ==
    UpdateCore("DELETE", "UPDATE_ERROR", c, filters,
               [_deleted |-> TRUE, _deleted_at |-> clock])

(***************************************************************************)
(* HARD_DELETE                                                             *)
(***************************************************************************)
\* the sub-bag of the rows of bag b that lie in the set S
Restrict(b, S) == [t \in BagToSet(b) \cap S |-> b[t]]

\* hard_delete(): the statement and the parameters of the count
CountSql(req, id, path) ==
    LET built == _build_filters(req.filters)
    IN  [ text |->
            <<"SELECT COUNT(*) as count FROM iceberg_scan('">>
            \o PathText(id, path)
            \o <<"') WHERE _tenant_id = '">> \o req.tenant_id
            \o <<"' AND (">> \o built[1] \o <<")">>,
          params |-> built[2] ]

\* the rows counted by hard_delete(): every stored row of the tenant that
\* satisfies the filters, whatever its version
CountedRows(rows, tenant_id, filters) ==
    { t \in TenantRows(rows, tenant_id) : FiltersHold(t, filters) }

\* _build_iceberg_filter_from_array: the conditions that are lowered to a
\* catalog expression (a like condition is dropped)
_build_iceberg_filter_from_array(filters) ==
    SelectSeq(filters,
              LAMBDA f : f.operator \in {"eq", "ne", "gt", "gte", "lt", "lte", "in"})

\* the rows that And(EqualTo("_tenant_id", tenant_id), iceberg_filter) selects
ExpressionRows(rows, tenant_id, filters) ==
    { t \in TenantRows(rows, tenant_id) :
        FiltersHold(t, _build_iceberg_filter_from_array(filters)) }

\* the data files left by table.delete: the selected rows are removed from
\* every file and a file left without rows is dropped
RECURSIVE DeleteFromFiles(_, _)
DeleteFromFiles(files, S) ==
    IF Len(files) = 0 THEN <<>>
    ELSE LET kept == Restrict(files[1], BagToSet(files[1]) \ S)
         IN  (IF kept = EmptyBag THEN <<>> ELSE <<kept>>)
                \o DeleteFromFiles(Tail(files), S)

\* a request that confirm=true would let through, let through anyway
ConfirmationSkipped(confirm) == FALSE

\* hard_delete(): if not request.confirm
ConfirmationRequired(confirm) == ~confirm

HardDelete(c, filters, confirm) ==
    LET id == TableOf(c)
        request == Request("HARD_DELETE", c, filters, FALSE)
        req == [tenant_id |-> c.tenant_id, filters |-> filters]
    IN
    /\ commits < MaxCommits
    /\ IF ConfirmationRequired(confirm)
       THEN /\ resp' = Failure(request, "CONFIRMATION_REQUIRED")
            /\ UNCHANGED <<namespaces, catalog, metadata_cache, query_cache,
                           last_compact_check, clock, commits>>
       ELSE IF ~TableExists(id)
       THEN /\ resp' = Failure(request, "HARD_DELETE_ERROR")
            /\ UNCHANGED <<namespaces, catalog, metadata_cache, query_cache,
                           last_compact_check, clock, commits>>
       ELSE LET doc == CurrentDoc(id)
                path == MetadataLocation(id)
                records_to_delete ==
                    BagCardinality(Restrict(Rows(doc),
                        CountedRows(Rows(doc), c.tenant_id, filters)))
                files_after ==
                    DeleteFromFiles(doc.files,
                        ExpressionRows(Rows(doc), c.tenant_id, filters))
            IN  /\ resp' = [request EXCEPT
                              !.count = records_to_delete,
                              !.files_rewritten =
                                  IF records_to_delete = 0 THEN 0
                                  ELSE Len(doc.files) - Len(files_after),
                              !.path = path,
                              !.sql = CountSql(req, id, path)]
                /\ IF records_to_delete = 0
                   THEN UNCHANGED <<namespaces, catalog, commits>>
                   ELSE /\ catalog' = Commit(id, Doc(files_after, doc.snapshots + 1))
                        /\ commits' = commits + 1
                /\ UNCHANGED <<namespaces, metadata_cache, query_cache, last_compact_check,
                               clock>>

(***************************************************************************)
(* COMPACT                                                                 *)
(***************************************************************************)
\* compact(): the statement that reads the data to rewrite
CompactSql(req, id, path) ==
    [ text |->
        <<"SELECT * FROM iceberg_scan('">> \o PathText(id, path)
        \o <<"') WHERE _tenant_id = '">> \o req.tenant_id \o <<"'">>,
      params |-> <<>> ]

\* table.overwrite(batch): every data file is replaced by one file holding
\* the batch
OverwriteDoc(doc, batch) == Doc(<<batch>>, doc.snapshots + 1)

\* the snapshot expiration of compact(): all but the latest snapshot
ExpireDoc(doc) == Doc(doc.files, 1)

\* CompactRequest.snapshot_retention_hours
RetentionHours == {0, 1, DefaultRetentionHours}

\* compact(): retention_time is computed from snapshot_retention_hours and
\* never used; the expiry runs with older_than = now
CompactTable(c, force, expire_snapshots, snapshot_retention_hours) ==
    LET id == TableOf(c)
        request == [Request("COMPACT", c, NoFilters, FALSE) EXCEPT
                      !.snapshot_retention_hours = snapshot_retention_hours]
        req == [tenant_id |-> c.tenant_id]
    IN
    /\ commits < MaxCommits
    /\ IF ~TableExists(id)
       THEN /\ resp' = Failure(request, "COMPACT_ERROR")
            /\ UNCHANGED <<namespaces, catalog, metadata_cache, query_cache,
                           last_compact_check, clock, commits>>
       ELSE LET doc == CurrentDoc(id)
                path == MetadataLocation(id)
                small_files == Len(doc.files)
                batch == Restrict(Rows(doc), TenantRows(Rows(doc), c.tenant_id))
                written == OverwriteDoc(doc, batch)
            IN  IF \/ Len(doc.files) = 0
                   \/ (~force /\ small_files < MinFilesToCompact)
                THEN \* No files to compact / Only n small files
                     /\ resp' = request
                     /\ UNCHANGED <<namespaces, catalog, metadata_cache, query_cache,
                                    last_compact_check, clock, commits>>
                ELSE IF batch = EmptyBag
                THEN \* No data to compact
                     /\ resp' = [request EXCEPT !.path = path,
                                                !.sql = CompactSql(req, id, path)]
                     /\ UNCHANGED <<namespaces, catalog, metadata_cache, query_cache,
                                    last_compact_check, clock, commits>>
                ELSE /\ catalog' =
                          IF expire_snapshots /\ written.snapshots > 1
                          THEN [catalog EXCEPT ![id] =
                                   Append(Append(@, written), ExpireDoc(written))]
                          ELSE Commit(id, written)
                     /\ commits' = commits + 1
                     /\ metadata_cache' = InvalidateMetadata(metadata_cache, id)
                     /\ resp' = [request EXCEPT
                                   !.compacted = TRUE,
                                   !.path = path,
                                   !.sql = CompactSql(req, id, path),
                                   !.snapshots_expired =
                                       IF expire_snapshots /\ written.snapshots > 1
                                       THEN written.snapshots - 1 ELSE 0]
                     /\ UNCHANGED <<namespaces, query_cache, last_compact_check, clock>>

\* a COMPACT with the default snapshot_retention_hours
Compact(c, force, expire_snapshots) ==
    CompactTable(c, force, expire_snapshots, DefaultRetentionHours)

(***************************************************************************)
(* COMPACT step by step, next to the commits of other processes            *)
(***************************************************************************)
\* the commit of table.overwrite() is made against the metadata that
\* load_table() returned to compact(), whatever the table holds by now
OverwriteCommitsOnAnyBase(id, loaded) == TableExists(id)

\* table.overwrite(arrow_table): the commit of the table object that
\* compact() loaded requires the table to be at the metadata it was loaded
\* with; the catalog refuses it (CommitFailedException) after another commit
OverwriteCommits(id, loaded) ==
    /\ TableExists(id)
    /\ MetadataLocation(id) = loaded

\* compact() from load_table() to the fetch of the tenant's rows, in the
\* case that goes on to the overwrite: the table object and the rows read
\* from its metadata_location are the local variables of the call
CompactScan(c, force, expire_snapshots) ==
    LET id == TableOf(c)
    IN  /\ Idle
        /\ _iceberg_ops # Null
        /\ commits < MaxCommits
        /\ TableExists(id)
        /\ LET doc == CurrentDoc(id)
               batch == Restrict(Rows(doc), TenantRows(Rows(doc), c.tenant_id))
           IN  /\ Len(doc.files) # 0
               /\ force \/ Len(doc.files) >= MinFilesToCompact
               /\ batch # EmptyBag
               /\ in_flight' = [op |-> "COMPACT", c |-> c,
                                expire_snapshots |-> expire_snapshots,
                                table |-> MetadataLocation(id),
                                arrow_table |-> batch]
        /\ UNCHANGED <<catalog, metadata_cache, query_cache,
                       last_compact_check, clock, commits, resp, namespaces,
                       _iceberg_ops, _iceberg_ops_init_failed,
                       constructor_calls,
                   handler_optimized>>

\* compact() from table.overwrite() to its return: the commit, the
\* invalidation of the metadata cache and the expiry of the snapshots, or
\* the exception of the commit caught by "except Exception"
CompactOverwrite ==
    /\ ~Idle
    /\ in_flight.op = "COMPACT"
    /\ LET c == in_flight.c
           id == TableOf(c)
           loaded == in_flight.table
           expire_snapshots == in_flight.expire_snapshots
           request == Request("COMPACT", c, NoFilters, FALSE)
           req == [tenant_id |-> c.tenant_id]
       IN  IF ~OverwriteCommits(id, loaded)
           THEN /\ resp' = [Failure(request, "COMPACT_ERROR") EXCEPT
                              !.path = loaded,
                              !.sql = CompactSql(req, id, loaded)]
                /\ UNCHANGED <<catalog, metadata_cache, commits>>
           ELSE LET written == OverwriteDoc(catalog[id][loaded],
                                            in_flight.arrow_table)
                IN  /\ catalog' =
                         IF expire_snapshots /\ written.snapshots > 1
                         THEN [catalog EXCEPT ![id] =
                                  Append(Append(@, written), ExpireDoc(written))]
                         ELSE Commit(id, written)
                    /\ commits' = commits + 1
                    /\ metadata_cache' = InvalidateMetadata(metadata_cache, id)
                    /\ resp' = [request EXCEPT
                                  !.compacted = TRUE,
                                  !.path = loaded,
                                  !.sql = CompactSql(req, id, loaded),
                                  !.snapshots_expired =
                                      IF expire_snapshots /\ written.snapshots > 1
                                      THEN written.snapshots - 1 ELSE 0]
    /\ in_flight' = NoCall
    /\ UNCHANGED <<query_cache, last_compact_check, clock, namespaces,
                   _iceberg_ops, _iceberg_ops_init_failed, constructor_calls,
                   handler_optimized>>

\* the commit of a WRITE of another process: table.append(arrow_table) on
\* the table that process loaded; nothing of this instance changes
OtherProcessWrite(c, record) ==
    LET id == TableOf(c)
    IN  /\ commits < MaxCommits
        /\ TableExists(id)
        /\ catalog' = Commit(id, AppendDoc(CurrentDoc(id),
                                 SetToBag({Enrich(c.tenant_id, record)})))
        /\ commits' = commits + 1
        /\ UNCHANGED <<metadata_cache, query_cache, last_compact_check, clock,
                       resp, namespaces, process>>

\* the commit of an UPDATE of another process, which read the table from
\* the catalog: one new version per selected row
OtherProcessUpdate(c, filters, patch) ==
    LET id == TableOf(c)
    IN  /\ commits < MaxCommits
        /\ TableExists(id)
        /\ \E selected \in Rank1Choices(
                 UpdateCandidates(Rows(CurrentDoc(id)), c.tenant_id, filters)) :
              /\ selected # {}
              /\ catalog' = Commit(id, AppendDoc(CurrentDoc(id),
                                       UpdateBatch(selected, patch)))
        /\ commits' = commits + 1
        /\ UNCHANGED <<metadata_cache, query_cache, last_compact_check, clock,
                       resp, namespaces, process>>

(***************************************************************************)
(* QUERY with sort and limit                                               *)
(***************************************************************************)
\* str(request.sort) for sort = [{field: age, order: asc}]
SortText ==
    <<"[SortField(field='age', order=<SortOrder.ASC: 'asc'>, nulls_first=None)]">>

\* query(): the cache key of a request with sort and limit; offset is not
\* among the parts of the key
PageCacheKey(req, limit) ==
    MD5(Join(<< req.tenant_id,
                req.namespace,
                req.table,
                <<>>,
                <<"['*']">>,
                <<>>, <<>>, <<>>,
                SortText,
                IntToStr(limit),
                BoolToStr(req.include_deleted) >>, <<":">>))

\* ORDER BY age ASC over rows of distinct age
RECURSIVE OrderByAge(_)
OrderByAge(S) ==
    IF S = {} THEN <<>>
    ELSE LET first == CHOOSE t \in S : \A u \in S : t.age <= u.age
         IN  <<first>> \o OrderByAge(S \ {first})

\* LIMIT n
Limit(rows, n) == SubSeq(rows, 1, IF n < Len(rows) THEN n ELSE Len(rows))

\* the limits and offsets of the requests
Limits == {1, 2}
Offsets == {0, 1}

\* query() for a request with sort = [age asc], limit and offset: the
\* statement ends with ORDER BY and LIMIT; request.offset is never read
QueryPageWithin(c, limit, offset, max_cached) ==
    LET req == QueryRequest(c, NoFilters, FALSE)
        request == [Request("QUERY", c, NoFilters, FALSE) EXCEPT
                      !.limit = limit, !.offset = offset]
        key == PageCacheKey(req, limit)
        pos == QueryCachePos(key)
        id == TableOf(c)
    IN
    IF QueryCacheHit(key)
    THEN /\ query_cache' = [query_cache EXCEPT ![pos].result.cache_hit = TRUE,
                                               ![pos].used = clock]
         /\ resp' = [request EXCEPT
                       !.records = query_cache[pos].result.records,
                       !.page = query_cache[pos].result.page,
                       !.count = query_cache[pos].result.row_count,
                       !.cache_hit = TRUE,
                       !.served = "query_cache",
                       !.age = clock - query_cache[pos].time]
         /\ UNCHANGED <<namespaces, catalog, metadata_cache,
                        last_compact_check, clock, commits>>
    ELSE IF MetadataPathRaises(id)
    THEN /\ resp' = request
         /\ UNCHANGED <<namespaces, catalog, metadata_cache, query_cache,
                        last_compact_check, clock, commits>>
    ELSE LET path == _get_metadata_path(id)
             hit == MetadataHit(id)
         IN  /\ pos # 0 \/ Len(query_cache) < max_cached
             /\ \E ranked \in Rank1Choices(TenantRows(IcebergScan(id, path),
                                                   req.tenant_id)) :
               LET page == Limit(OrderByAge(QueryRows(ranked, req)), limit)
                   data == { page[i] : i \in 1..Len(page) }
                   result == [records |-> data, row_count |-> Len(page),
                              cache_hit |-> hit, page |-> page]
               IN
                   /\ metadata_cache' = MetadataCacheAfterGet(id)
                   /\ query_cache' = QueryCacheStore(query_cache, key, result, clock)
                   /\ resp' = [request EXCEPT
                                 !.records = data,
                                 !.page = page,
                                 !.count = Len(page),
                                 !.cache_hit = hit,
                                 !.served = IF hit THEN "metadata_cache"
                                            ELSE "catalog",
                                 !.age = IF hit THEN clock - metadata_cache[id][2]
                                         ELSE 0,
                                 !.path = path,
                                 !.sql = [QuerySql(req, id, path) EXCEPT
                                            !.text = @ \o <<" ORDER BY age ASC",
                                                            " LIMIT ">>
                                                       \o IntToStr(limit)]]
                   /\ UNCHANGED <<namespaces, catalog, last_compact_check,
                                  clock, commits>>

\* a QUERY with sort and limit while the cache of the model has room
QueryPage(c, limit, offset) == QueryPageWithin(c, limit, offset, MaxCached)

(***************************************************************************)
(* Requests of several threads on one instance: the call of one thread     *)
(* step by step, the calls of the other threads between its steps          *)
(***************************************************************************)
\* query(): "if query_cache_key in self._query_cache" finds the key
QueryTest(c, limit) ==
    LET key == PageCacheKey(QueryRequest(c, NoFilters, FALSE), limit)
    IN  /\ Idle
        /\ _iceberg_ops # Null
        /\ QueryCachePos(key) # 0
        /\ in_flight' = [op |-> "QUERY", c |-> c, limit |-> limit,
                         query_cache_key |-> key]
        /\ UNCHANGED <<catalog, metadata_cache, query_cache,
                       last_compact_check, clock, commits, resp, namespaces,
                       _iceberg_ops, _iceberg_ops_init_failed,
                       constructor_calls,
                   handler_optimized>>

\* query() from "self._query_cache[query_cache_key]" on: a KeyError when the
\* key has left the dict, raised outside the try block of query()
QueryRead ==
    /\ in_flight.op = "QUERY"
    /\ IF QueryCachePos(in_flight.query_cache_key) = 0
       THEN /\ resp' = [Failure([Request("QUERY", in_flight.c, NoFilters, FALSE)
                                   EXCEPT !.limit = in_flight.limit], "")
                          EXCEPT !.raised = "KeyError"]
            /\ UNCHANGED <<catalog, metadata_cache, query_cache,
                           last_compact_check, clock, commits, namespaces>>
       ELSE QueryPageWithin(in_flight.c, in_flight.limit, 0,
                            QueryCacheLimit + 1)
    /\ in_flight' = NoCall
    /\ UNCHANGED <<_iceberg_ops, _iceberg_ops_init_failed, constructor_calls,
                   handler_optimized>>

\* write() up to "if table_identifier in self._metadata_cache": the append
\* is committed and the membership test is made
WriteAppend(c, record) ==
    LET id == TableOf(c)
    IN  /\ Idle
        /\ _iceberg_ops # Null
        /\ commits < MaxCommits
        /\ TableExists(id)
        /\ catalog' = Commit(id, AppendDoc(CurrentDoc(id),
                                 SetToBag({Enrich(c.tenant_id, record)})))
        /\ commits' = commits + 1
        /\ in_flight' = [op |-> "WRITE", c |-> c,
                         in_cache |-> id \in DOMAIN metadata_cache]
        /\ UNCHANGED <<metadata_cache, query_cache, last_compact_check, clock,
                       resp, namespaces, _iceberg_ops,
                       _iceberg_ops_init_failed, constructor_calls,
                   handler_optimized>>

\* write() from "del self._metadata_cache[table_identifier]" on: a KeyError
\* when the key has left the dict, caught by "except Exception"; otherwise
\* the probe, the auto-compaction check and the response
WriteFinish ==
    /\ in_flight.op = "WRITE"
    /\ LET c == in_flight.c
           id == TableOf(c)
           request == Request("WRITE", c, NoFilters, FALSE)
       IN  IF in_flight.in_cache /\ id \notin DOMAIN metadata_cache
           THEN /\ resp' = [Failure(request, "WRITE_ERROR") EXCEPT
                              !.message = <<"KeyError">>]
                /\ UNCHANGED <<metadata_cache, last_compact_check>>
           ELSE LET recommended == CompactionRecommended(CurrentDoc(id))
                    due == AutoCompactDue(recommended)
                IN  /\ metadata_cache' =
                         IF in_flight.in_cache
                         THEN InvalidateMetadata(metadata_cache, id)
                         ELSE metadata_cache
                    /\ last_compact_check' =
                         IF last_compact_check = Null \/ due
                         THEN clock ELSE last_compact_check
                    /\ resp' = [request EXCEPT
                                  !.trigger = IF due THEN "invoked" ELSE "none",
                                  !.compaction_recommended = recommended,
                                  !.count = 1]
    /\ in_flight' = NoCall
    /\ UNCHANGED <<catalog, query_cache, clock, commits, namespaces,
                   _iceberg_ops, _iceberg_ops_init_failed, constructor_calls,
                   handler_optimized>>

(***************************************************************************)
(* CREATE_TABLE                                                            *)
(***************************************************************************)
\* an existing table is an error when if_not_exists is set
ExistsIsErrorInverted(if_not_exists) == if_not_exists

\* create_table(): if not request.if_not_exists
ExistsIsError(if_not_exists) == ~if_not_exists

\* create_table(): load_table succeeds on an existing table; otherwise
\* catalog.create_table makes a table without snapshots and data files
CreateTable(c, if_not_exists) ==
    LET id == TableOf(c)
        request == Request("CREATE_TABLE", c, NoFilters, FALSE)
    IN
    IF TableExists(id)
    THEN /\ resp' = IF ExistsIsError(if_not_exists)
                    THEN Failure(request, "TABLE_EXISTS")
                    ELSE [request EXCEPT !.table_existed = TRUE]
         /\ UNCHANGED <<namespaces, catalog, metadata_cache, query_cache,
                        last_compact_check, clock, commits>>
    ELSE /\ catalog' = [k \in DOMAIN catalog \cup {id} |->
                          IF k = id THEN <<EmptyDoc>> ELSE catalog[k]]
         /\ namespaces' = namespaces \cup {_get_namespace(c.tenant_id, c.namespace)}
         /\ resp' = [request EXCEPT !.table_created = TRUE]
         /\ UNCHANGED <<metadata_cache, query_cache, last_compact_check,
                        clock, commits>>

(***************************************************************************)
(* DROP_TABLE                                                              *)
(***************************************************************************)
\* a call catalog.drop_table(identifier, purge=purge), and the call
\* catalog.drop_table(identifier)
DropCall(identifier, purge) == [identifier |-> identifier, purge |-> purge]
NoPurge == "absent"

\* the drop is always repeated without purge
DropCallsRepeated(id, purge, accepts_purge) ==
    <<DropCall(id, purge), DropCall(id, NoPurge)>>

\* drop_table(): the drop with purge, and the drop without it when the
\* catalog raised TypeError on the purge argument
DropCalls(id, purge, accepts_purge) ==
    IF accepts_purge THEN <<DropCall(id, purge)>>
    ELSE <<DropCall(id, purge), DropCall(id, NoPurge)>>

\* drop_table(): load_table raises on a missing table; otherwise the
\* table is dropped from the catalog and its metadata cache entry deleted
DropTable(c, purge, accepts_purge) ==
    LET id == TableOf(c)
        request == Request("DROP_TABLE", c, NoFilters, FALSE)
    IN
    IF ~TableExists(id)
    THEN /\ resp' = request
         /\ UNCHANGED <<namespaces, catalog, metadata_cache, query_cache,
                        last_compact_check, clock, commits>>
    ELSE /\ catalog' = [k \in DOMAIN catalog \ {id} |-> catalog[k]]
         /\ metadata_cache' = InvalidateMetadata(metadata_cache, id)
         /\ resp' = [request EXCEPT
                       !.table_dropped = TRUE,
                       !.table_existed = TRUE,
                       !.catalog_calls = DropCalls(id, purge, accepts_purge)]
         /\ UNCHANGED <<namespaces, query_cache, last_compact_check, clock,
                        commits>>

(***************************************************************************)
(* DROP_NAMESPACE                                                          *)
(***************************************************************************)
\* the tables of a namespace: the identifiers that start with "<name>."
TablesIn(name) ==
    { k \in DOMAIN catalog :
        /\ Len(k) > Len(name) + 1
        /\ SubSeq(k, 1, Len(name) + 1) = name \o <<".">> }

\* str(e).lower() of the errors of catalog.drop_namespace(name):
\* NoSuchNamespaceError and NamespaceNotEmptyError.  The fixed fragments
\* are single tokens, followed or surrounded by the characters of the name.
NoSuchNamespaceMessage(name) ==
    <<"namespace ", "does not exist", ": ">> \o name
NamespaceNotEmptyMessage(name) ==
    <<"namespace ">> \o name \o <<" is not empty">>

\* every error of the catalog is read as a missing namespace
AnyErrorIsMissing(message) == TRUE

\* drop_namespace(): "not found" in str(e).lower() or
\* "does not exist" in str(e).lower()
SaysMissing(message) ==
    \/ Contains(message, <<"not found">>)
    \/ Contains(message, <<"does not exist">>)

\* drop_namespace(): the answer to an exception of the catalog
DropNamespaceError(request, message) ==
    IF SaysMissing(message)
    THEN [request EXCEPT !.message = message]
    ELSE [Failure(request, "DROP_NAMESPACE_ERROR") EXCEPT !.message = message]

\* drop_namespace(): catalog.drop_namespace(name) drops an empty namespace
\* and raises on a missing one and on one that holds tables
DropNamespace(c) ==
    LET name == _get_namespace(c.tenant_id, c.namespace)
        request == [Request("DROP_NAMESPACE", c, NoFilters, FALSE) EXCEPT
                      !.catalog_calls = <<[namespace |-> name]>>]
    IN
    IF name \notin namespaces
    THEN /\ resp' = DropNamespaceError(request, NoSuchNamespaceMessage(name))
         /\ UNCHANGED <<namespaces, catalog, metadata_cache, query_cache,
                        last_compact_check, clock, commits>>
    ELSE IF TablesIn(name) # {}
    THEN /\ resp' = DropNamespaceError(request,
                                        NamespaceNotEmptyMessage(name))
         /\ UNCHANGED <<namespaces, catalog, metadata_cache, query_cache,
                        last_compact_check, clock, commits>>
    ELSE /\ namespaces' = namespaces \ {name}
         /\ resp' = [request EXCEPT !.namespace_dropped = TRUE,
                                    !.namespace_existed = TRUE]
         /\ UNCHANGED <<catalog, metadata_cache, query_cache,
                        last_compact_check, clock, commits>>

(***************************************************************************)
(* lambda_handler: the request deadline                                    *)
(***************************************************************************)
\* the operations that lambda_handler routes to the engine
EngineOperations ==
    {"WRITE", "QUERY", "UPDATE", "HARD_DELETE", "COMPACT", "CREATE_TABLE"}

\* the code that the operation's "except Exception" clause answers with
OperationError(op) ==
    CASE op = "WRITE" -> "WRITE_ERROR"
      [] op = "QUERY" -> "QUERY_ERROR"
      [] op = "UPDATE" -> "UPDATE_ERROR"
      [] op = "HARD_DELETE" -> "HARD_DELETE_ERROR"
      [] op = "COMPACT" -> "COMPACT_ERROR"
      [] op = "CREATE_TABLE" -> "CREATE_ERROR"

\* lambda_handler(): 504 from "except TimeoutError", otherwise
\* 200 if success else 400
\* lambda_handler(): 'initialization' in error_msg.lower() or
\* 'failed to initialize' in error_msg.lower()
MentionsInitialization(message) ==
    \/ Contains(message, <<"initialization">>)
    \/ Contains(message, <<"failed", "to", "initialize">>)

\* lambda_handler(): 200 if success else 400 for a returned envelope, 504
\* from "except TimeoutError", 400 from "except ValueError", 503 or 500
\* from "except RuntimeError", 500 from "except Exception"
StatusCode(r) ==
    CASE r.raised = "none" -> IF r.success THEN 200 ELSE 400
      [] r.raised = "TimeoutError" -> 504
      [] r.raised = "ValueError" -> 400
      [] r.raised = "RuntimeError" ->
            IF MentionsInitialization(r.message) THEN 503 ELSE 500
      [] OTHER -> 500

\* timeout_handler() raises TimeoutError while lambda_handler's own code
\* runs, before the operation is called: "except TimeoutError" answers
TimeoutInHandler(c, op) ==
    /\ resp' = [Failure(Request(op, c, NoFilters, FALSE), "Request timeout")
                  EXCEPT !.deadline_expired = TRUE, !.raised = "TimeoutError"]
    /\ UNCHANGED <<namespaces, process, catalog, metadata_cache, query_cache, last_compact_check,
                   clock, commits>>

\* timeout_handler() raises TimeoutError while the operation runs inside
\* its try block, before it commits: TimeoutError is a subclass of
\* Exception, so the operation's "except Exception" clause catches it and
\* the operation returns its error response to lambda_handler
TimeoutInEngine(c, op) ==
    /\ resp' = [Failure(Request(op, c, NoFilters, FALSE), OperationError(op))
                  EXCEPT !.deadline_expired = TRUE]
    /\ UNCHANGED <<namespaces, catalog, metadata_cache, query_cache, last_compact_check,
                   clock, commits>>

(***************************************************************************)
(* DatabaseOperations: the static wrappers over get_iceberg_ops()          *)
(***************************************************************************)
\* DatabaseOperations.<operation>(request) in a process whose instance
\* exists: get_iceberg_ops() returns it and the operation A runs on it
Served(A) ==
    /\ _iceberg_ops # Null
    /\ A
    /\ UNCHANGED process

\* get_iceberg_ops(): the messages of its RuntimeError, in lower case
PreviouslyFailedMessage ==
    <<"iceberg", "operations", "initialization", "previously", "failed">>
FailedToInitializeMessage ==
    <<"failed", "to", "initialize", "iceberg", "operations">>

\* the constructor is tried again after a failure
InitFailedForgotten == FALSE

\* get_iceberg_ops(): if _iceberg_ops_init_failed
InitFailedBefore == _iceberg_ops_init_failed

\* the RuntimeError of get_iceberg_ops() leaves DatabaseOperations before
\* the operation's try block and reaches lambda_handler
InitFailure(c, op, message) ==
    resp' = [Failure(Request(op, c, NoFilters, FALSE), "") EXCEPT
               !.raised = "RuntimeError", !.message = message]

\* DatabaseOperations.<operation>(request): get_iceberg_ops() raises when
\* the construction failed before, constructs the instance when there is
\* none (constructs: whether FullIcebergOperations() returns), and the
\* operation A runs on the instance
DatabaseOperations(c, op, constructs, A) ==
    IF InitFailedBefore
    THEN /\ InitFailure(c, op, PreviouslyFailedMessage)
         /\ UNCHANGED <<catalog, metadata_cache, query_cache,
                        last_compact_check, clock, commits, namespaces,
                        process>>
    ELSE IF _iceberg_ops = Null
    THEN IF constructs
         THEN /\ A
              /\ _iceberg_ops' = constructor_calls + 1
              /\ constructor_calls' = constructor_calls + 1
              /\ UNCHANGED <<_iceberg_ops_init_failed, in_flight,
                             handler_optimized>>
         ELSE /\ InitFailure(c, op, FailedToInitializeMessage)
              /\ _iceberg_ops_init_failed' = TRUE
              /\ constructor_calls' = constructor_calls + 1
              /\ UNCHANGED <<catalog, metadata_cache, query_cache,
                             last_compact_check, clock, commits, namespaces,
                             _iceberg_ops, in_flight, handler_optimized>>
    ELSE Served(A)

(***************************************************************************)
(* lambda_handler: the event, its body and the response body               *)
(***************************************************************************)
\* lambda_handler(): the event has no body
MissingBody ==
    /\ resp' = [Failure(NoResp, "") EXCEPT
                  !.op = "", !.fault = "missing_body",
                  !.message = <<"request", "body", "is", "required">>]
    /\ UNCHANGED <<catalog, metadata_cache, query_cache, last_compact_check,
                   clock, commits, namespaces, process>>

\* operations that OperationType does not hold
UnknownOperations == {"", "FROB"}

\* lambda_handler(): no branch of the routing matches the operation
UnknownOperation(c, op) ==
    /\ resp' = [Failure(Request(op, c, NoFilters, FALSE), "") EXCEPT
                  !.fault = "unknown_operation",
                  !.message = <<"unknown", "operation:", op>>]
    /\ UNCHANGED <<catalog, metadata_cache, query_cache, last_compact_check,
                   clock, commits, namespaces, process>>

\* bodies that are no valid request of their operation:
\*   bad_json                the body string is not JSON
\*   bad_field               a field fails the validation of the request
\*                           model (an unknown filter operator, a missing
\*                           tenant_id)
\*   not_an_object           the body is JSON, but an array or a string
\*   operation_not_a_string  "operation" is a number or null
EnvelopeFaults ==
    {"bad_json", "bad_field", "not_an_object", "operation_not_a_string"}

\* lambda_handler(): json.loads raises JSONDecodeError and the request
\* models raise ValidationError, both subclasses of ValueError;
\* request_data.get on an array and .upper() on a number raise
\* AttributeError
EnvelopeError(fault) ==
    IF fault \in {"bad_json", "bad_field"} THEN "ValueError"
    ELSE "AttributeError"

\* lambda_handler(): the body is rejected before any operation is called
InvalidEnvelope(c, op, fault) ==
    /\ resp' = [Failure(Request(op, c, NoFilters, FALSE), "") EXCEPT
                  !.fault = fault,
                  !.raised = EnvelopeError(fault),
                  !.message = <<"invalid", "request">>]
    /\ UNCHANGED <<catalog, metadata_cache, query_cache, last_compact_check,
                   clock, commits, namespaces, process>>

\* whether the response is the operation's envelope, and not the body made
\* by error_response()
ViaEnvelope(r) == r.raised = "none" /\ r.fault = "none"

\* the body of the response: the operation's envelope with its metadata
\* replaced, or the body of error_response(), whose error is the message
Body(r) ==
    IF ViaEnvelope(r)
    THEN [success |-> r.success,
          data |-> IF r.success THEN "object" ELSE "null",
          metadata |-> [request_id |-> "request_id",
                        execution_time_ms |-> 0],
          error |-> IF r.success THEN [type |-> "null"]
                    ELSE [type |-> "object", code |-> r.code,
                          message |-> r.message]]
    ELSE [success |-> FALSE,
          error |-> [type |-> "string", value |-> r.message],
          request_id |-> "request_id",
          timestamp |-> clock]

(***************************************************************************)
(* UPSERT                                                                  *)
(***************************************************************************)
\* str(e) of the AttributeError, in lower case
NoUpsertMessage ==
    <<"type", "object", "'databaseoperations'", "has", "no", "attribute",
      "'upsert'">>

\* lambda_handler(): the UpsertRequest is built and DatabaseOperations.upsert
\* is looked up; DatabaseOperations defines no upsert, so the lookup raises
\* AttributeError before get_iceberg_ops() is called, and
\* "except Exception" answers
Upsert(c, record) ==
    /\ resp' = [Failure(Request("UPSERT", c, NoFilters, FALSE), "") EXCEPT
                  !.raised = "AttributeError", !.message = NoUpsertMessage]
    /\ UNCHANGED <<catalog, metadata_cache, query_cache, last_compact_check,
                   clock, commits, namespaces, process>>

(***************************************************************************)
(* Time                                                                    *)
(***************************************************************************)
\* time passes between two requests
Tick ==
    /\ \E d \in {_query_cache_ttl, _cache_ttl} :
         /\ clock + d <= MaxClock
         /\ clock' = clock + d
    /\ UNCHANGED <<namespaces, process, catalog, metadata_cache, query_cache, last_compact_check,
                   commits, resp>>

(***************************************************************************)
(* lambda_handler_optimized: execute_query_optimized on a connection of    *)
(* the pool, and GLOBAL_CACHE                                              *)
(***************************************************************************)
MAX_CACHE_SIZE == 500
READ_CACHE_TTL == 60

\* a table that the connection does not have
MissingTable == <<"u">>

\* what the other module's operations leave alone
engine == <<catalog, metadata_cache, query_cache, last_compact_check, clock,
            commits, namespaces, _iceberg_ops, _iceberg_ops_init_failed,
            constructor_calls, in_flight>>

\* get_cache_key(): the digest of json.dumps(key_data, sort_keys=True) for
\* a payload that holds the table
get_cache_key(tenant_id, operation, table) ==
    MD5(<<"{\"op\": \"", operation, "\", \"table\": \"">> \o table
        \o <<"\", \"tenant\": \"">> \o tenant_id \o <<"\"}">>)

\* the characters of hexdigest()
HexDigits == {"0", "1", "2", "3", "4", "5", "6", "7", "8", "9",
              "a", "b", "c", "d", "e", "f"}

\* "text in key" for a key that is a hexdigest: false for a text with a
\* character that no hexdigest has, and as the digest has it (found)
\* otherwise
InHexDigest(text, found) ==
    /\ \A i \in 1..Len(text) : text[i] \in HexDigits
    /\ found

\* position of key in the cache, 0 when it is not there
CachePos(cache, key) ==
    IF \E i \in 1..Len(cache) : cache[i].key = key
    THEN CHOOSE i \in 1..Len(cache) : cache[i].key = key
    ELSE 0

\* del GLOBAL_CACHE[key]
Without(cache, pos) ==
    SubSeq(cache, 1, pos - 1) \o SubSeq(cache, pos + 1, Len(cache))

\* put_in_cache(): evict from the front while the cache is full, then store
put_in_cache(cache, key, data, ttl, now) ==
    LET kept == IF Len(cache) >= MAX_CACHE_SIZE
                THEN SubSeq(cache, Len(cache) - MAX_CACHE_SIZE + 2, Len(cache))
                ELSE cache
    IN  Append(kept, [key |-> key, data |-> data, timestamp |-> now,
                      ttl |-> ttl])

\* invalidate_cache_for_table(): the keys of GLOBAL_CACHE are hexdigests;
\* a key is deleted when the pattern or the table name is part of it
invalidate_cache_for_table(cache, tenant_id, table, found) ==
    LET pattern == tenant_id \o <<":QUERY:table:">> \o table
        deleted == InHexDigest(pattern, found) \/ InHexDigest(table, found)
    IN  IF deleted THEN <<>> ELSE cache

\* UPDATE t SET age = '31' WHERE age = '30'
UpdatedRows(rows) ==
    LET n == CopiesIn([age |-> 30], rows) + CopiesIn([age |-> 31], rows)
    IN  IF n = 0 THEN EmptyBag ELSE ([age |-> 31] :> n)

\* DELETE FROM t WHERE age = '30'
RemainingRows(rows) ==
    LET n == CopiesIn([age |-> 31], rows)
    IN  IF n = 0 THEN EmptyBag ELSE ([age |-> 31] :> n)

\* the result of an operation whose exception was caught, and of one that
\* returned records (from_cache: whether get_from_cache returned it, which
\* the result itself does not say)
FailedResult ==
    [success |-> FALSE, records |-> EmptyBag, count |-> 0, from_cache |-> FALSE]
Result(records) ==
    [success |-> TRUE, records |-> records, count |-> BagCardinality(records),
     from_cache |-> FALSE]

Returned(db, cache, result, raised) ==
    [db |-> db, cache |-> cache, result |-> result, raised |-> raised]

\* execute_query_optimized(conn, tenant_id, operation, payload) on the
\* tables db of conn.  payload.envelope: the payload holds the keys
\* "operation" or "tenant_id", as the body that lambda_handler passes and
\* the operations of a BATCH do; get_cache_key(tenant_id, operation,
\* **payload) then raises TypeError before the try block.  An operation
\* that is none of the five is passed to lambda_handler.execute_operation,
\* which does not exist: ImportError, caught.
execute_query_optimized(db, cache, now, tenant_id, payload, found) ==
    LET table == payload.table
        key == get_cache_key(tenant_id, payload.operation, table)
        pos == CachePos(cache, key)
        fresh == pos # 0 /\ now - cache[pos].timestamp < cache[pos].ttl
        missed == IF pos # 0 THEN Without(cache, pos) ELSE cache
        invalidated == invalidate_cache_for_table(cache, tenant_id, table, found)
    IN
    CASE payload.operation = "QUERY" ->
            IF payload.envelope
            THEN Returned(db, cache, FailedResult, "TypeError")
            ELSE IF fresh
            THEN Returned(db, Append(Without(cache, pos), cache[pos]),
                          [cache[pos].data EXCEPT !.from_cache = TRUE], "none")
            ELSE IF table \in DOMAIN db
            THEN Returned(db,
                          put_in_cache(missed, key, Result(db[table]),
                                       READ_CACHE_TTL, now),
                          Result(db[table]), "none")
            ELSE Returned(db, missed, FailedResult, "none")
      [] payload.operation = "WRITE" ->
            IF table \in DOMAIN db
            THEN Returned([db EXCEPT ![table] = @ (+) SetToBag({payload.record})],
                          invalidated, Result(SetToBag({payload.record})), "none")
            ELSE Returned(db, cache, FailedResult, "none")
      [] payload.operation = "UPDATE" ->
            IF table \in DOMAIN db
            THEN Returned([db EXCEPT ![table] = UpdatedRows(@)],
                          invalidated, Result(EmptyBag), "none")
            ELSE Returned(db, cache, FailedResult, "none")
      [] payload.operation = "DELETE" ->
            IF table \in DOMAIN db
            THEN Returned([db EXCEPT ![table] = RemainingRows(@)],
                          invalidated, Result(EmptyBag), "none")
            ELSE Returned(db, cache, FailedResult, "none")
      [] OTHER -> Returned(db, cache, FailedResult, "none")

\* the response of lambda_handler_optimized, or of a direct call
OptimizedResponse(c, operation, table, result, raised) ==
    [NoResp EXCEPT !.handler = "lambda_handler_optimized",
                   !.op = operation,
                   !.tenant_id = c.tenant_id,
                   !.namespace = c.namespace,
                   !.table = table,
                   !.success = result.success /\ raised = "none",
                   !.records = result.records,
                   !.count = result.count,
                   !.served = IF result.from_cache THEN "GLOBAL_CACHE"
                              ELSE "connection",
                   !.raised = raised]

\* rows a table of the model may hold
MaxRows == 3

OptimizedPayloads ==
    [operation : {"QUERY", "WRITE", "UPDATE", "DELETE"},
     table : {TableName, MissingTable},
     record : {[age |-> 30]},
     envelope : BOOLEAN]

\* one operation through execute_query_optimized
Optimized(c, payload) ==
    LET conn == ConnKey(c.tenant_id, c.namespace)
    IN  /\ conn \in DOMAIN connections
        /\ \A t \in DOMAIN connections[conn] :
              BagCardinality(connections[conn][t]) < MaxRows
        /\ \E found \in BOOLEAN :
              LET out == execute_query_optimized(connections[conn], GLOBAL_CACHE,
                                                 clock, c.tenant_id, payload,
                                                 found)
              IN  /\ connections' = [connections EXCEPT ![conn] = out.db]
                  /\ GLOBAL_CACHE' = out.cache
                  /\ resp' = OptimizedResponse(c, payload.operation,
                                               payload.table, out.result,
                                               out.raised)
        /\ UNCHANGED engine

\* BATCH: the loop over payload["operations"]; it ends at the first
\* operation that raises
RECURSIVE RunBatch(_, _, _, _, _)
RunBatch(ran, operations, now, tenant_id, found) ==
    IF operations = <<>> \/ ran.raised # "none"
    THEN ran
    ELSE LET out == execute_query_optimized(ran.db, ran.cache, now, tenant_id,
                                            Head(operations), found)
         IN  RunBatch([db |-> out.db, cache |-> out.cache,
                       results |-> IF out.raised = "none"
                                   THEN Append(ran.results, out.result)
                                   ELSE ran.results,
                       raised |-> out.raised],
                      Tail(operations), now, tenant_id, found)

\* the operations of a BATCH: each holds the key "operation"
BatchOperations ==
    { [operation |-> "WRITE", table |-> TableName, record |-> [age |-> 30],
       envelope |-> TRUE],
      [operation |-> "WRITE", table |-> MissingTable, record |-> [age |-> 30],
       envelope |-> TRUE],
      [operation |-> "CREATE_TABLE", table |-> TableName,
       record |-> [age |-> 30], envelope |-> TRUE],
      [operation |-> "QUERY", table |-> TableName, record |-> [age |-> 30],
       envelope |-> TRUE] }

Batches == { <<a, b>> : a \in BatchOperations, b \in BatchOperations }

\* BATCH: BEGIN TRANSACTION, the operations, COMMIT; ROLLBACK and the
\* error response when an operation raised
OptimizedBatch(c, operations) ==
    LET conn == ConnKey(c.tenant_id, c.namespace)
    IN  /\ conn \in DOMAIN connections
        /\ \A t \in DOMAIN connections[conn] :
              BagCardinality(connections[conn][t]) + Len(operations) <= MaxRows
        /\ \E found \in BOOLEAN :
              LET ran == RunBatch([db |-> connections[conn],
                                   cache |-> GLOBAL_CACHE,
                                   results |-> <<>>, raised |-> "none"],
                                  operations, clock, c.tenant_id, found)
                  request == OptimizedResponse(c, "BATCH", <<>>,
                                               Result(EmptyBag), "none")
              IN  /\ GLOBAL_CACHE' = ran.cache
                  /\ IF ran.raised # "none"
                     THEN /\ connections' = connections
                          /\ resp' = [request EXCEPT !.success = FALSE]
                     ELSE /\ connections' = [connections EXCEPT ![conn] = ran.db]
                          /\ resp' = [request EXCEPT !.results = ran.results]
        /\ UNCHANGED engine

(***************************************************************************)
(* Specifications.                                                         *)
(***************************************************************************)
\* requests of three callers that follow each other within one second
Next ==
    \/ \E c \in Callers, r \in Records : Served(Write(c, r))
    \/ \E c \in Callers, f \in FilterLists, d \in BOOLEAN : Served(Query(c, f, d))
    \/ \E c \in Callers, f \in UpdateFilterLists, p \in Patches : Served(Update(c, f, p))
    \/ \E c \in Callers, f \in UpdateFilterLists : Served(Delete(c, f))
    \/ \E c \in Callers, f \in UpdateFilterLists, b \in BOOLEAN : Served(HardDelete(c, f, b))
    \/ \E c \in Callers, f \in BOOLEAN, e \in BOOLEAN : Served(Compact(c, f, e))

Spec == Init /\ [][Next]_vars

\* requests of one caller, with time passing between them
ClockCaller == [tenant_id |-> TenantHyphen, namespace |-> NamespaceColon]

NextClock ==
    \/ Served(Write(ClockCaller, [age |-> 30]))
    \/ Served(Query(ClockCaller, NoFilters, FALSE))
    \/ \E f \in UpdateFilterLists, p \in Patches : Served(Update(ClockCaller, f, p))
    \/ \E f \in UpdateFilterLists : Served(Delete(ClockCaller, f))
    \/ Tick

SpecClock == Init /\ [][NextClock]_vars

\* requests of one caller that update one record to either of two ages
TiePatches == { [age |-> 31], [age |-> 32] }

NextTies ==
    \/ Served(Write(ClockCaller, [age |-> 30]))
    \/ \E f \in FilterLists, d \in BOOLEAN : Served(Query(ClockCaller, f, d))
    \/ \E f \in UpdateFilterLists, p \in TiePatches :
          Served(Update(ClockCaller, f, p))
    \/ \E f \in UpdateFilterLists : Served(Delete(ClockCaller, f))
    \/ Tick

SpecTies == Init /\ [][NextTies]_vars

\* one instance that writes, reads and compacts the table step by step,
\* and the commits of other processes of the same tenant and of the
\* tenant that shares its table
CompactionCallers ==
    {ClockCaller, [tenant_id |-> TenantUnderscore, namespace |-> NamespaceColon]}

NextCompaction ==
    \/ \E r \in Records : Idle /\ Served(Write(ClockCaller, r))
    \/ \E d \in BOOLEAN :
          Idle /\ Served(Query(ClockCaller, NoFilters, d))
    \/ \E e \in BOOLEAN : CompactScan(ClockCaller, TRUE, e)
    \/ CompactOverwrite
    \/ \E c \in CompactionCallers, r \in Records : OtherProcessWrite(c, r)
    \/ \E c \in CompactionCallers, f \in UpdateFilterLists, p \in Patches :
          OtherProcessUpdate(c, f, p)

SpecCompaction == Init /\ [][NextCompaction]_vars

\* an instance that has answered QueryCacheLimit - 1 QUERY requests at time
\* 0, which differ in their limit, on the empty table: the query cache holds
\* their results in the order of the requests
FirstWarmLimit == 11

WarmEntry(limit) ==
    [key |-> PageCacheKey(QueryRequest(ClockCaller, NoFilters, FALSE), limit),
     result |-> [records |-> {}, row_count |-> 0,
                 cache_hit |-> limit > FirstWarmLimit, page |-> <<>>],
     time |-> 0, used |-> 0]

InitWarm ==
    /\ catalog = (SharedTable :> <<EmptyDoc>>)
    /\ metadata_cache = (SharedTable :> <<1, 0>>)
    /\ query_cache = [i \in 1..(QueryCacheLimit - 1) |->
                        WarmEntry(FirstWarmLimit + i - 1)]
    /\ last_compact_check = Null
    /\ clock = 0
    /\ commits = 0
    /\ resp = NoResp
    /\ namespaces = {_get_namespace(TenantHyphen, NamespaceColon)}
    /\ Constructed

\* QUERY requests with limits of the cached results and with new limits,
\* on a cache that fills up to its limit, and time passing
LruLimits == {1, 2, FirstWarmLimit}

\* a caller whose table does not exist
NoTableCaller == [tenant_id |-> TenantColon, namespace |-> NamespaceShort]

NextLru ==
    \/ \E l \in LruLimits :
          Served(QueryPageWithin(ClockCaller, l, 0, QueryCacheLimit + 1))
    \/ \E l \in LruLimits :
          Served(QueryPageWithin(NoTableCaller, l, 0, QueryCacheLimit + 1))
    \/ Served(TimeoutInEngine(ClockCaller, "QUERY"))
    \/ Tick

SpecLru == InitWarm /\ [][NextLru]_vars

\* one thread whose QUERY or WRITE runs step by step, and the QUERYs and
\* WRITEs of the other threads of the instance, on a cache that is nearly
\* full
NextThreads ==
    \/ QueryTest(ClockCaller, FirstWarmLimit)
    \/ QueryRead
    \/ \E r \in Records : WriteAppend(ClockCaller, r)
    \/ WriteFinish
    \/ \E l \in Limits :
          Served(QueryPageWithin(ClockCaller, l, 0, QueryCacheLimit + 1))
    \/ \E r \in Records : Served(Write(ClockCaller, r))

SpecThreads == InitWarm /\ [][NextThreads]_vars

\* the operations of one caller through lambda_handler_optimized
NextOptimized ==
    \/ \E p \in OptimizedPayloads : Optimized(ClockCaller, p)
    \/ \E b \in Batches : OptimizedBatch(ClockCaller, b)
    \/ Tick

SpecOptimized == Init /\ [][NextOptimized]_vars

\* requests of one caller on the rows of its table, with every kind of
\* updates patch and filters on either age
NextRows ==
    \/ \E r \in Records : Served(Write(ClockCaller, r))
    \/ \E d \in BOOLEAN : Served(Query(ClockCaller, NoFilters, d))
    \/ \E f \in RowFilterLists, p \in Patches \cup IdentityPatches :
          Served(Update(ClockCaller, f, p))
    \/ \E f \in RowFilterLists : Served(Delete(ClockCaller, f))
    \/ \E f \in RowFilterLists \cup LikeFilterLists, b \in BOOLEAN :
          Served(HardDelete(ClockCaller, f, b))

SpecRows == Init /\ [][NextRows]_vars

\* requests that create tables, write to them and read them
NextTables ==
    \/ \E c \in Callers, b \in BOOLEAN : Served(CreateTable(c, b))
    \/ \E c \in Callers, r \in Records : Served(Write(c, r))
    \/ \E c \in Callers : Served(Query(c, NoFilters, FALSE))

SpecTables == Init /\ [][NextTables]_vars

\* writes of any mode, reads and forced compactions of any retention
NextModes ==
    \/ \E c \in Callers, r \in Records, m \in WriteModes :
          Served(WriteRecords(c, r, m, "completes", "invoked"))
    \/ \E c \in Callers, d \in BOOLEAN : Served(Query(c, NoFilters, d))
    \/ \E c \in Callers, e \in BOOLEAN, h \in RetentionHours :
          Served(CompactTable(c, TRUE, e, h))

SpecModes == Init /\ [][NextModes]_vars

\* requests handled by lambda_handler under a deadline
NextHandler ==
    \/ \E c \in Callers, b \in BOOLEAN : Served(CreateTable(c, b))
    \/ \E c \in Callers, r \in Records : Served(Write(c, r))
    \/ \E c \in Callers : Served(Query(c, NoFilters, FALSE))
    \/ \E c \in Callers, op \in EngineOperations : TimeoutInHandler(c, op)
    \/ \E c \in Callers, op \in EngineOperations : Served(TimeoutInEngine(c, op))

SpecHandler == Init /\ [][NextHandler]_vars

\* requests of one caller that create, fill, read and drop its table
NextDrop ==
    \/ \E b \in BOOLEAN : Served(CreateTable(ClockCaller, b))
    \/ \E r \in Records : Served(Write(ClockCaller, r))
    \/ \E d \in BOOLEAN : Served(Query(ClockCaller, NoFilters, d))
    \/ \E p \in BOOLEAN, a \in BOOLEAN : Served(DropTable(ClockCaller, p, a))

SpecDrop == Init /\ [][NextDrop]_vars

\* writes, reads and upserts
NextUpsert ==
    \/ \E c \in Callers, r \in Records : Served(Write(c, r))
    \/ \E c \in Callers, d \in BOOLEAN : Served(Query(c, NoFilters, d))
    \/ \E c \in Callers, r \in Records : Upsert(c, r)

SpecUpsert == Init /\ [][NextUpsert]_vars

\* two callers with namespaces of their own
NamespaceCallers ==
    { ClockCaller, [tenant_id |-> TenantColon, namespace |-> NamespaceShort] }

\* requests that create, fill and drop tables and drop namespaces
NextNamespace ==
    \/ \E c \in NamespaceCallers : Served(CreateTable(c, TRUE))
    \/ \E c \in NamespaceCallers, r \in Records : Served(Write(c, r))
    \/ \E c \in NamespaceCallers : Served(Query(c, NoFilters, FALSE))
    \/ \E c \in NamespaceCallers : Served(DropTable(c, FALSE, TRUE))
    \/ \E c \in NamespaceCallers : Served(DropNamespace(c))

SpecNamespace == Init /\ [][NextNamespace]_vars

\* writes of one caller and its sorted reads of every limit and offset
NextPage ==
    \/ \E r \in Records : Served(Write(ClockCaller, r))
    \/ \E l \in Limits, o \in Offsets : Served(QueryPage(ClockCaller, l, o))
    \/ Tick

SpecPage == Init /\ [][NextPage]_vars

\* a process that has constructed no instance yet
InitProcess ==
    /\ catalog = (SharedTable :> <<EmptyDoc>>)
    /\ metadata_cache = <<>>
    /\ query_cache = <<>>
    /\ last_compact_check = Null
    /\ clock = 0
    /\ commits = 0
    /\ resp = NoResp
    /\ namespaces = {_get_namespace(TenantHyphen, NamespaceColon)}
    /\ _iceberg_ops = Null
    /\ _iceberg_ops_init_failed = FALSE
    /\ constructor_calls = 0
    /\ in_flight = NoCall
    /\ PoolStarted

\* the requests of a process from its start, the constructor failing or not
NextProcess ==
    \/ \E c \in Callers, r \in Records, ok \in BOOLEAN :
          DatabaseOperations(c, "WRITE", ok, Write(c, r))
    \/ \E c \in Callers, d \in BOOLEAN, ok \in BOOLEAN :
          DatabaseOperations(c, "QUERY", ok, Query(c, NoFilters, d))
    \/ \E c \in Callers, b \in BOOLEAN, ok \in BOOLEAN :
          DatabaseOperations(c, "CREATE_TABLE", ok, CreateTable(c, b))

SpecProcess == InitProcess /\ [][NextProcess]_vars

\* the POST requests of one caller to a process from its start: operations that succeed
\* and fail, bodies that are rejected, a deadline that expires and a
\* constructor that fails
NextEnvelope ==
    \/ \E r \in Records, ok \in BOOLEAN :
          DatabaseOperations(ClockCaller, "WRITE", ok, Write(ClockCaller, r))
    \/ \E ok \in BOOLEAN :
          DatabaseOperations(ClockCaller, "QUERY", ok,
                             Query(ClockCaller, NoFilters, FALSE))
    \/ \E b \in BOOLEAN, ok \in BOOLEAN :
          DatabaseOperations(ClockCaller, "CREATE_TABLE", ok,
                             CreateTable(ClockCaller, b))
    \/ MissingBody
    \/ \E op \in UnknownOperations : UnknownOperation(ClockCaller, op)
    \/ \E op \in EngineOperations, f \in EnvelopeFaults :
          InvalidEnvelope(ClockCaller, op, f)
    \/ \E op \in EngineOperations : TimeoutInHandler(ClockCaller, op)
    \/ \E r \in Records : Upsert(ClockCaller, r)

SpecEnvelope == InitProcess /\ [][NextEnvelope]_vars

\* the table after n writes of one record each, none of them compacted
WrittenDoc(n) ==
    Doc([j \in 1..n |-> SetToBag({Enrich(TenantHyphen, [age |-> 30])})], n)

\* a table of CheckInterval - 1 records, written one by one from time 0
\* on, and an instance that wrote the first of them, or a new instance that
\* has written nothing yet; AutoCompactInterval seconds later, or more
InitTrigger ==
    /\ catalog = (SharedTable :> [i \in 1..CheckInterval |-> WrittenDoc(i - 1)])
    /\ metadata_cache = <<>>
    /\ query_cache = <<>>
    /\ last_compact_check \in {0, Null}
    /\ clock \in {AutoCompactInterval, AutoCompactInterval + 1}
    /\ commits = 0
    /\ resp = NoResp
    /\ namespaces = {_get_namespace(TenantHyphen, NamespaceColon)}
    /\ Constructed

\* writes under every outcome of the probe and of the trigger, and reads
NextTrigger ==
    \/ \E r \in Records, p \in ProbeOutcomes, t \in TriggerOutcomes :
          Served(WriteRecords(ClockCaller, r, "append", p, t))
    \/ \E d \in BOOLEAN : Served(Query(ClockCaller, NoFilters, d))

SpecTrigger == InitTrigger /\ [][NextTrigger]_vars

(***************************************************************************)
(* Properties: what the contract promises about a response and the state   *)
(* it was answered in.                                                     *)
(***************************************************************************)
\* the table a request addressed
RequestTable(r) ==
    TableOf([tenant_id |-> r.tenant_id, namespace |-> r.namespace])

SameCaller(r, q) == r.tenant_id = q.tenant_id /\ r.namespace = q.namespace

\* the tuples of one logical row: one _record_id of one tenant
LogicalRow(rows, t) ==
    { u \in BagToSet(rows) :
        u._tenant_id = t._tenant_id /\ u._record_id = t._record_id }

\* records is a latest-wins answer over rows: only tuples of the greatest
\* _version of their _record_id that pass the soft-delete filter and the
\* user filters, one per _record_id, and none left out
LatestWinsAnswer(records, rows, tenant_id, filters, include_deleted) ==
    LET S == TenantRows(rows, tenant_id)
        Passes(t) == /\ include_deleted \/ t._deleted # TRUE
                     /\ FiltersHold(t, filters)
    IN  /\ \A t \in records : t \in Top(S, t._record_id) /\ Passes(t)
        /\ \A t \in records, u \in records :
              t._record_id = u._record_id => t = u
        /\ \A r \in RecordIds(S) :
              (\A t \in Top(S, r) : Passes(t))
                 => \E t \in records : t._record_id = r

\* C1 (tenant isolation): no QUERY response to a request of tenant A holds a
\* row whose _tenant_id is not A.
C1_TenantIsolation ==
    resp.op = "QUERY" =>
        \A t \in resp.records : t._tenant_id = resp.tenant_id

\* C2 (latest-wins reads): a default QUERY returns, for each _record_id of
\* the calling tenant in the table, exactly the tuple of the greatest
\* _version unless it is deleted, filtered after that selection, and no
\* tuple of an older version.
C2_LatestWinsReads ==
    (/\ resp.op = "QUERY"
     /\ ~resp.include_deleted
     /\ TableExists(RequestTable(resp)))
       => LatestWinsAnswer(resp.records, Rows(CurrentDoc(RequestTable(resp))),
                           resp.tenant_id, resp.filters, FALSE)

\* C3 (version monotonicity): for a logical row that was written once and
\* then updated or soft-deleted, no two tuples share a _version and the
\* greatest _version is the number of mutations, which is the number of
\* tuples appended for it.
C3_VersionMonotonicity ==
    \A id \in DOMAIN catalog :
      LET rows == Rows(CurrentDoc(id))
      IN  \A t \in BagToSet(rows) :
            LET R == LogicalRow(rows, t)
                mutations == BagCardinality(Restrict(rows, R))
                written == BagCardinality(Restrict(rows,
                                { u \in R : u._version = 1 }))
            IN  written = 1 =>
                  /\ \A u \in R : rows[u] = 1
                  /\ \A u \in R, w \in R : u._version = w._version => u = w
                  /\ \A u \in R : u._version <= mutations
                  /\ \E u \in R : u._version = mutations

\* C4 (soft-delete stickiness): a QUERY that follows a successful soft DELETE
\* with the same filters returns no row by default, and with include_deleted
\* only rows that are deleted and carry _deleted_at, one for each row the
\* DELETE reported.
C4_SoftDeleteStickiness ==
    [][ (/\ resp.op = "DELETE"
         /\ resp.success
         /\ resp'.op = "QUERY"
         /\ SameCaller(resp, resp')
         /\ resp'.filters = resp.filters)
          => IF resp'.include_deleted
             THEN /\ \A t \in resp'.records :
                        t._deleted = TRUE /\ t._deleted_at # Null
                  /\ resp'.count >= resp.count
             ELSE resp'.records = {} /\ resp'.count = 0 ]_vars

\* C5 (read-your-writes on one instance): a QUERY that follows a successful
\* WRITE, UPDATE or DELETE of the same caller on the table returns the
\* post-mutation state of the table.
C5_ReadYourWrites ==
    [][ (/\ resp.op \in {"WRITE", "UPDATE", "DELETE"}
         /\ resp.success
         /\ resp'.op = "QUERY"
         /\ SameCaller(resp, resp'))
          => LatestWinsAnswer(resp'.records,
                              Rows(CurrentDoc(RequestTable(resp))),
                              resp'.tenant_id, resp'.filters,
                              resp'.include_deleted) ]_vars

\* whether the answered request committed a snapshot to its table
Committed(r) ==
    /\ r.success
    /\ \/ r.op = "WRITE"
       \/ r.op \in {"UPDATE", "DELETE", "HARD_DELETE"} /\ r.count > 0
       \/ r.op = "COMPACT" /\ r.compacted

\* C6 (eager metadata-cache invalidation): after every successful operation
\* that commits a snapshot to table T, the metadata cache of the instance
\* holds no entry for T.
C6_EagerInvalidation ==
    Committed(resp) => RequestTable(resp) \notin DOMAIN metadata_cache

\* what a default read of the tenant returns from rows, as a multiset: the
\* tuples of the greatest _version of their _record_id that are not deleted
DefaultRead(rows, tenant_id) ==
    LET S == TenantRows(rows, tenant_id)
    IN  Restrict(rows, { t \in S : /\ t \in Top(S, t._record_id)
                                   /\ t._deleted # TRUE })

\* C7 (compaction preservation): for every tenant with rows in the compacted
\* physical table, the multiset of current-version, non-deleted rows is the
\* same before and after a successful COMPACT.
C7_CompactionPreservation ==
    [][ (resp'.op = "COMPACT" /\ resp'.compacted)
          => \A c \in Callers :
                TableOf(c) = RequestTable(resp')
                  => DefaultRead(Rows(CurrentDoc(TableOf(c))), c.tenant_id)'
                       = DefaultRead(Rows(CurrentDoc(TableOf(c))), c.tenant_id)
      ]_vars

\* the statement the engine executes for the answered request when its
\* tenant id and its filters are given other scalar values
SqlOf(r, tenant_id, filters) ==
    LET id == RequestTable(r)
        req == [tenant_id |-> tenant_id, filters |-> filters,
                include_deleted |-> r.include_deleted]
    IN  CASE r.op = "QUERY" -> QuerySql(req, id, r.path)
          [] r.op \in {"UPDATE", "DELETE"} -> UpdateSql(req, id, r.path)
          [] r.op = "HARD_DELETE" -> CountSql(req, id, r.path)
          [] r.op = "COMPACT" -> CompactSql(req, id, r.path)
          [] OTHER -> NoSql

\* the filters with every value replaced by v
WithValue(filters, v) ==
    [i \in DOMAIN filters |-> [filters[i] EXCEPT !.value = v]]

\* C8 (parameterization): the SQL text executed for a request is the text
\* executed for the request with any other tenant id and any other filter
\* values, and every filter value is a bound parameter.
C8_Parameterization ==
    resp.sql # NoSql =>
        /\ resp.sql.params = [i \in DOMAIN resp.filters |-> resp.filters[i].value]
        /\ \A c \in Callers, v \in Ages :
              SqlOf(resp, c.tenant_id, WithValue(resp.filters, v)).text
                 = resp.sql.text

C10_CurrentRowSet ==
    [][ (/\ resp'.op \in {"UPDATE", "DELETE"}
         /\ resp'.success
         /\ resp'.served = "catalog"
         /\ clock' = clock)
          => LET S == TenantRows(Rows(CurrentDoc(RequestTable(resp'))),
                                 resp'.tenant_id)
                 Current(t) == /\ t._deleted # TRUE
                               /\ FiltersHold(t, resp'.filters)
                 surely == { r \in RecordIds(S) :
                               \A t \in Top(S, r) : Current(t) }
                 maybe == { r \in RecordIds(S) :
                              \E t \in Top(S, r) : Current(t) }
             IN  /\ Cardinality(surely) <= resp'.count
                 /\ resp'.count <= Cardinality(maybe) ]_vars

\* C11 (identity columns are stable under UPDATE): every tuple an UPDATE or
\* soft DELETE appends carries the _record_id and the _tenant_id of a tuple
\* of the caller in the snapshot it read, and that tuple's _version plus one.
C11_IdentityStable ==
    [][ (/\ resp'.op \in {"UPDATE", "DELETE"}
         /\ resp'.success
         /\ clock' = clock
         /\ catalog' # catalog)
          => LET id == RequestTable(resp')
                 files == catalog'[id][Len(catalog'[id])].files
                 batch == files[Len(files)]
                 S == TenantRows(IcebergScan(id, resp'.path), resp'.tenant_id)
             IN  \A u \in BagToSet(batch) :
                    \E t \in S : /\ u._record_id = t._record_id
                                 /\ u._tenant_id = t._tenant_id
                                 /\ u._version = t._version + 1 ]_vars

\* C12 (HARD_DELETE without confirmation is a no-op): a HARD_DELETE with
\* confirm=false fails with CONFIRMATION_REQUIRED, reads no metadata pointer,
\* executes no statement, commits nothing and leaves the table and both
\* caches as they were.
C12_UnconfirmedNoOp ==
    [][ \A f \in RowFilterLists :
          HardDelete(ClockCaller, f, FALSE)
            => /\ resp'.op = "HARD_DELETE"
               /\ resp'.success = FALSE
               /\ resp'.code = "CONFIRMATION_REQUIRED"
               /\ resp'.path = 0
               /\ resp'.sql = NoSql
               /\ UNCHANGED <<catalog, metadata_cache, query_cache, commits>>
      ]_vars

\* an unconfirmed HARD_DELETE was refused while rows of the caller satisfy
\* its filters
C12_RefusedWithMatches ==
    /\ resp.op = "HARD_DELETE"
    /\ resp.code = "CONFIRMATION_REQUIRED"
    /\ CountedRows(Rows(CurrentDoc(RequestTable(resp))), resp.tenant_id,
                   resp.filters) # {}

\* the _record_ids of the logical rows of the tenant in rows whose current
\* tuple (greatest _version) satisfies the filters
CurrentMatches(rows, tenant_id, filters) ==
    LET S == TenantRows(rows, tenant_id)
    IN  { r \in RecordIds(S) : \A t \in Top(S, r) : FiltersHold(t, filters) }

\* C13 (HARD_DELETE removes whole logical rows): after a successful
\* HARD_DELETE with filters F, no tuple of any version remains of a logical
\* row of the tenant whose current version matched F.
C13_WholeRowsRemoved ==
    [][ (resp'.op = "HARD_DELETE" /\ resp'.success)
          => LET id == RequestTable(resp')
                 matched == CurrentMatches(Rows(CurrentDoc(id)),
                                           resp'.tenant_id, resp'.filters)
                 left == TenantRows(Rows(catalog'[id][Len(catalog'[id])]),
                                    resp'.tenant_id)
             IN  \A u \in left : u._record_id \notin matched ]_vars

\* the tuples of rows that are no longer, or less often, in the rows left
Removed(rows, left) ==
    { t \in BagToSet(rows) :
        IF t \in BagToSet(left) THEN left[t] < rows[t] ELSE TRUE }

\* C14 (HARD_DELETE with an unsupported operator is rejected): no
\* HARD_DELETE, with a like condition among its filters or without, removes
\* a tuple of another tenant or a tuple that fails one of the request's
\* filters.
C14_LikeRejected ==
    [][ resp'.op = "HARD_DELETE"
          => LET id == RequestTable(resp')
             IN  \A t \in Removed(Rows(CurrentDoc(id)),
                                  Rows(catalog'[id][Len(catalog'[id])])) :
                    /\ t._tenant_id = resp'.tenant_id
                    /\ FiltersHold(t, resp'.filters) ]_vars

\* the _record_ids of the logical rows of the tenant in rows of which some
\* tuple of the greatest _version satisfies the filters
PossibleMatches(rows, tenant_id, filters) ==
    LET S == TenantRows(rows, tenant_id)
    IN  { r \in RecordIds(S) : \E t \in Top(S, r) : FiltersHold(t, filters) }

\* no tuple is stored twice and no two tuples of a logical row share a
\* _version
DistinctVersions(rows) ==
    \A t \in BagToSet(rows) :
       /\ rows[t] = 1
       /\ \A u \in LogicalRow(rows, t) : u._version = t._version => u = t

\* C15 (HARD_DELETE count): on a table whose rows have one tuple per
\* version, records_deleted of a confirmed HARD_DELETE is the number of
\* logical rows of the tenant whose current version satisfies the filters;
\* when it is 0, files_rewritten is 0 and nothing is deleted.
C15_HardDeleteCount ==
    [][ (/\ resp'.op = "HARD_DELETE"
         /\ resp'.success
         /\ DistinctVersions(Rows(CurrentDoc(RequestTable(resp')))))
          => LET rows == Rows(CurrentDoc(RequestTable(resp')))
             IN  /\ Cardinality(CurrentMatches(rows, resp'.tenant_id,
                                               resp'.filters)) <= resp'.count
                 /\ resp'.count
                      <= Cardinality(PossibleMatches(rows, resp'.tenant_id,
                                                     resp'.filters))
                 /\ resp'.count = 0
                      => resp'.files_rewritten = 0 /\ catalog' = catalog ]_vars

\* C16 (idempotent create): CREATE_TABLE with if_not_exists=true succeeds,
\* creates the table when there is none (table_created) and leaves an
\* existing one as it is (table_existed), so that a repeated create reports
\* table_existed; with if_not_exists=false on an existing table the
\* response is TABLE_EXISTS and the table is unchanged.
C16_IdempotentCreate ==
    [][ \A c \in Callers :
          /\ CreateTable(c, TRUE)
               => /\ resp'.success
                  /\ TableOf(c) \in DOMAIN catalog'
                  /\ resp'.table_existed = TableExists(TableOf(c))
                  /\ resp'.table_created = ~TableExists(TableOf(c))
                  /\ \A id \in DOMAIN catalog : catalog'[id] = catalog[id]
                  /\ DOMAIN catalog' = DOMAIN catalog \cup {TableOf(c)}
                  /\ (resp.op = "CREATE_TABLE" /\ resp.success
                        /\ RequestTable(resp) = TableOf(c))
                       => resp'.table_existed /\ ~resp'.table_created
          /\ (CreateTable(c, FALSE) /\ TableExists(TableOf(c)))
               => /\ resp'.success = FALSE
                  /\ resp'.code = "TABLE_EXISTS"
                  /\ catalog' = catalog ]_vars

\* a repeated CREATE_TABLE of a table that an earlier request created and
\* wrote to
C16_CreatedBefore ==
    /\ resp.op = "CREATE_TABLE"
    /\ resp.success
    /\ resp.table_existed
    /\ ~resp.table_created
    /\ RequestTable(resp) # SharedTable
    /\ Rows(CurrentDoc(RequestTable(resp))) # EmptyBag

\* the tuples of a tenant in rows, as a multiset
TenantBag(rows, tenant_id) == Restrict(rows, TenantRows(rows, tenant_id))

\* C17 (WRITE mode semantics): after a successful WRITE with mode=overwrite
\* the tuples of the tenant in the table are exactly the tuples of the new
\* batch, and after a successful WRITE with mode=append they are the earlier
\* tuples and the batch.
C17_WriteModes ==
    [][ \A c \in Callers, r \in Records :
          LET id == TableOf(c)
              batch == SetToBag({Enrich(c.tenant_id, r)})
              after == TenantBag(Rows(catalog'[id][Len(catalog'[id])]),
                                 c.tenant_id)
          IN  /\ (WriteRecords(c, r, "overwrite", "completes", "invoked")
                    /\ resp'.success)
                   => after = batch
              /\ (WriteRecords(c, r, "append", "completes", "invoked")
                    /\ resp'.success)
                   => after = TenantBag(Rows(CurrentDoc(id)), c.tenant_id)
                                (+) batch ]_vars

\* C18 (probe and trigger failures never fail a write): a WRITE whose append
\* has committed returns success=true with records_written equal to the
\* number of records, whatever the compaction probe and the auto-compaction
\* trigger do, a failure to create the invocation client included.
C18_WriteSurvivesTrigger ==
    [][ \A r \in Records, p \in ProbeOutcomes, t \in TriggerOutcomes :
          (WriteRecords(ClockCaller, r, "append", p, t) /\ catalog' # catalog)
            => resp'.success /\ resp'.count = 1 ]_vars

\* C19 (snapshot retention): a COMPACT that rewrote the table reports in
\* stats.snapshots_expired the number of snapshots it expired; it expires
\* none when expire_snapshots=false, all but the latest when
\* snapshot_retention_hours=0, and none that is younger than
\* snapshot_retention_hours.  Every snapshot of the table was committed at a
\* time between 0 and clock, so that all are younger while
\* clock < snapshot_retention_hours * SecondsPerHour.
C19_SnapshotRetention ==
    [][ \A c \in Callers, e \in BOOLEAN, h \in RetentionHours :
          LET id == TableOf(c)
              before == CurrentDoc(id).snapshots
              after == catalog'[id][Len(catalog'[id])].snapshots
              expired == before + 1 - after
          IN  (CompactTable(c, TRUE, e, h) /\ resp'.compacted)
                => /\ resp'.snapshots_expired = expired
                   /\ ~e => expired = 0
                   /\ (e /\ h = 0) => after = 1
                   /\ (e /\ clock < h * SecondsPerHour) => expired = 0 ]_vars

\* C20 (timeout classification): a request during which the deadline expired
\* is answered with status 504, wherever the deadline expired, inside the
\* engine included.
C20_TimeoutIs504 == resp.deadline_expired => StatusCode(resp) = 504

\* C21 (initialization failure is terminal): once the construction of the
\* instance has failed, every later engine-backed request is answered with
\* status 503 and the constructor is not invoked again; once it has
\* succeeded, the same instance serves every later request and the
\* constructor was invoked exactly once.
C21_InitFailureTerminal ==
    [][ /\ _iceberg_ops_init_failed
           => /\ _iceberg_ops_init_failed'
              /\ _iceberg_ops' = Null
              /\ constructor_calls' = constructor_calls
              /\ StatusCode(resp') = 503
        /\ _iceberg_ops # Null
           => /\ _iceberg_ops' = _iceberg_ops
              /\ constructor_calls' = 1
              /\ ~_iceberg_ops_init_failed' ]_vars

\* a request answered 503 by a process whose constructor failed on an
\* earlier request
C21_RefusedAfterFailure ==
    /\ _iceberg_ops_init_failed
    /\ resp.message = PreviouslyFailedMessage
    /\ StatusCode(resp) = 503
    /\ constructor_calls = 1

\* C22 (non-existent table reads): a QUERY on a table that does not exist
\* in the catalog, never created or dropped, returns success with no
\* records and row_count 0.
C22_MissingTableReads ==
    (resp.op = "QUERY" /\ ~TableExists(RequestTable(resp)))
      => resp.success /\ resp.records = {} /\ resp.count = 0

\* the name of the caller's table in the catalog: {tenant_id}_{namespace}
\* .{table} with the hyphens of the tenant id replaced by underscores
CatalogName(c) ==
    Replace(c.tenant_id, "-", "_") \o <<"_">> \o c.namespace \o <<".">>
        \o TableName

C23_UpsertResult ==
    [][ \A c \in Callers, r \in Records :
          LET id == TableOf(c)
              current == BagToSet(DefaultRead(Rows(CurrentDoc(id)),
                                              c.tenant_id))
              matched == \E t \in current :
                            t._record_id = MD5(JsonDumps(r))
          IN  (Upsert(c, r) /\ TableExists(id))
                => /\ resp'.success
                   /\ resp'.count = 1
                   /\ resp'.records_inserted + resp'.records_updated = 1
                   /\ resp'.records_updated = (IF matched THEN 1 ELSE 0) ]_vars

\* C24 (response envelope): every response body of a POST request holds
\* success and metadata with request_id and execution_time_ms, and every
\* failure body holds error as an object with code and message.
C24_ResponseEnvelope ==
    resp.op # "NONE"
      => LET body == Body(resp)
         IN  /\ "success" \in DOMAIN body
             /\ "metadata" \in DOMAIN body
             /\ {"request_id", "execution_time_ms"} \subseteq DOMAIN body.metadata
             /\ ~body.success
                  => /\ body.error.type = "object"
                     /\ {"code", "message"} \subseteq DOMAIN body.error

\* C25 (status mapping): the status is 200 exactly when a dispatched
\* operation's envelope has success=true and 400 exactly when it has
\* success=false; a missing body, an unknown operation and a body that is
\* no valid request yield 400 and invoke no engine operation; any other
\* uncaught exception yields 500.
C25_StatusMapping ==
    [][ resp' # resp
          => /\ ViaEnvelope(resp')
                  => StatusCode(resp') = (IF resp'.success THEN 200 ELSE 400)
             /\ resp'.fault # "none"
                  => /\ StatusCode(resp') = 400
                     /\ UNCHANGED <<catalog, metadata_cache, query_cache,
                                    last_compact_check, commits, namespaces,
                                    process>>
             /\ (resp'.fault = "none"
                   /\ resp'.raised \notin {"none", "TimeoutError",
                                           "RuntimeError", "ValueError"})
                  => StatusCode(resp') = 500 ]_vars

\* the namespace of a caller in the catalog: {tenant_id}_{namespace} with
\* the hyphens of the tenant id replaced by underscores
CatalogNamespace(c) ==
    Replace(c.tenant_id, "-", "_") \o <<"_">> \o c.namespace

Window(rows, limit, offset) ==
    SubSeq(rows, offset + 1,
           IF offset + limit < Len(rows) THEN offset + limit ELSE Len(rows))

\* C28 (pagination): a QUERY with sort, limit L and offset O returns rows
\* O+1 .. O+L of the sorted current rows of the tenant.
C28_Pagination ==
    (/\ resp.op = "QUERY"
     /\ resp.limit # Null
     /\ TableExists(RequestTable(resp)))
      => resp.page =
           Window(OrderByAge(BagToSet(DefaultRead(Rows(CurrentDoc(RequestTable(resp))),
                                                  resp.tenant_id))),
                  resp.limit, resp.offset)

\* C29 (auto-compaction trigger): in a hosted-function environment a WRITE
\* that committed enqueues the COMPACT self-invocation exactly when its
\* response has compaction_recommended=true and at least
\* AutoCompactInterval seconds have passed since the last compaction check
\* of the instance, or no check has happened yet.
C29_AutoCompactTrigger ==
    [][ \A r \in Records, p \in ProbeOutcomes :
          (WriteRecords(ClockCaller, r, "append", p, "invoked")
             /\ catalog' # catalog)
            => (resp'.trigger = "invoked"
                  <=> /\ resp'.compaction_recommended
                      /\ \/ last_compact_check = Null
                         \/ /\ last_compact_check # Null
                            /\ clock - last_compact_check
                                 >= AutoCompactInterval)
      ]_vars

\* the tuples of record_id among the rows S that share its greatest _version
Tied(S, record_id) ==
    { t \in S : /\ t._record_id = record_id
                /\ ~ \E u \in S : /\ u._record_id = record_id
                                  /\ u._version > t._version }

\* C30 (tie-break on equal versions): a QUERY returns at most one row per
\* _record_id, and for a _record_id of the caller whose tuples of the
\* greatest _version in the table are several, none of them deleted and
\* all of them passing the filters, it returns exactly one of those tuples.
C30_TieBreak ==
    (/\ resp.op = "QUERY"
     /\ resp.success
     /\ TableExists(RequestTable(resp)))
       => LET S == TenantRows(Rows(CurrentDoc(RequestTable(resp))),
                              resp.tenant_id)
          IN  /\ \A t \in resp.records, u \in resp.records :
                    t._record_id = u._record_id => t = u
              /\ \A r \in RecordIds(S) :
                    (/\ Cardinality(Tied(S, r)) > 1
                     /\ \A t \in Tied(S, r) :
                          t._deleted # TRUE /\ FiltersHold(t, resp.filters))
                      => \E t \in Tied(S, r) :
                           { u \in resp.records : u._record_id = r } = {t}

LastUse(entry) == IF entry.used > entry.time THEN entry.used ELSE entry.time

\* C32 (the query cache is LRU): when a QUERY stores a result and an entry
\* leaves the cache, no entry that stays was stored or hit longer ago than
\* the entry that left.
C32_QueryCacheLru ==
    [][ \A gone \in 1..Len(query_cache) :
          (/\ resp'.op = "QUERY"
           /\ ~ \E j \in 1..Len(query_cache') :
                  query_cache'[j].key = query_cache[gone].key)
            => \A i \in 1..Len(query_cache) :
                  (\E j \in 1..Len(query_cache') :
                      query_cache'[j].key = query_cache[i].key)
                    => LastUse(query_cache[gone]) <= LastUse(query_cache[i])
      ]_vars

\* C33 (query cache bound): after every request the query cache holds at
\* most QueryCacheLimit entries, and an entry is stored only by a QUERY that
\* succeeded on a table it could read, with the records of its response:
\* the response of a failed QUERY or of a QUERY on a missing table is not
\* stored.
C33_QueryCacheBound ==
    [][ /\ Len(query_cache') <= QueryCacheLimit
        /\ \A j \in 1..Len(query_cache') :
             (~ \E i \in 1..Len(query_cache) :
                   /\ query_cache[i].key = query_cache'[j].key
                   /\ query_cache[i].time = query_cache'[j].time)
               => /\ resp'.op = "QUERY"
                  /\ resp'.success
                  /\ resp'.served \in {"catalog", "metadata_cache"}
                  /\ query_cache'[j].result.records = resp'.records
                  /\ query_cache'[j].result.row_count = resp'.count
      ]_vars

\* the cache is full after an entry was evicted, and the last response is
\* that of a QUERY on a missing table
C33_FullAfterEviction ==
    /\ Len(query_cache) = QueryCacheLimit
    /\ query_cache[1].key # WarmEntry(FirstWarmLimit).key
    /\ resp.op = "QUERY"
    /\ resp.served = "none"
    /\ ~TableExists(RequestTable(resp))

\* C34 (cache values are immutable): the result stored in an entry of the
\* query cache stays as it was stored, whatever requests follow, for as
\* long as the entry is not stored again.
C34_CacheValuesImmutable ==
    [][ \A i \in 1..Len(query_cache), j \in 1..Len(query_cache') :
          (/\ query_cache'[j].key = query_cache[i].key
           /\ query_cache'[j].time = query_cache[i].time)
            => query_cache'[j].result = query_cache[i].result
      ]_vars

\* C35 (cache accesses are mutually exclusive): a QUERY or WRITE that found
\* its key in a cache completes without an exception and without an error
\* response, whatever the other threads of the instance did to the caches
\* between its membership test and its access.
C35_CacheAccessAtomic ==
    [][ (QueryRead \/ WriteFinish)
          => (resp'.success /\ resp'.raised = "none") ]_vars

\* C36 (table identifiers separate tenants): no two callers that differ in
\* tenant_id or namespace address the same table of the catalog while one
\* of them compacts, hard-deletes or drops: such a request of one tenant
\* leaves every table that holds a row of another tenant as it is.
C36_TableIdentifiersSeparate ==
    [][ resp'.op \in {"COMPACT", "HARD_DELETE", "DROP_TABLE"}
          => \A id \in DOMAIN catalog :
                (\E t \in BagToSet(Rows(catalog[id][Len(catalog[id])])) :
                    t._tenant_id # resp'.tenant_id)
                  => /\ id \in DOMAIN catalog'
                     /\ catalog'[id] = catalog[id]
      ]_vars

\* the query cache key of the QUERY request of response r
KeyOfRequest(r) ==
    QueryCacheKey(QueryRequest([tenant_id |-> r.tenant_id,
                                namespace |-> r.namespace],
                               r.filters, r.include_deleted))

\* C37 (result-cache keys separate requests): a QUERY that is answered from
\* the query cache under the key of the QUERY before it comes from the same
\* tenant_id and namespace as that QUERY: requests that differ in tenant_id
\* or namespace have different keys.
C37_CacheKeysSeparate ==
    [][ (/\ resp.op = "QUERY"
         /\ resp'.op = "QUERY"
         /\ resp'.served = "query_cache"
         /\ KeyOfRequest(resp') = KeyOfRequest(resp))
          => /\ resp'.tenant_id = resp.tenant_id
             /\ resp'.namespace = resp.namespace
      ]_vars

\* C38 (optimized handler invalidation): after a successful WRITE, UPDATE
\* or DELETE on a table through execute_query_optimized, GLOBAL_CACHE holds
\* no entry of a QUERY on that table, and a successful QUERY returns the
\* rows the table holds.
C38_OptimizedInvalidation ==
    resp.handler = "lambda_handler_optimized" =>
      /\ (resp.op \in {"WRITE", "UPDATE", "DELETE"} /\ resp.success)
            => CachePos(GLOBAL_CACHE,
                        get_cache_key(resp.tenant_id, "QUERY", resp.table)) = 0
      /\ (resp.op = "QUERY" /\ resp.success)
            => resp.records
                 = connections[ConnKey(resp.tenant_id, resp.namespace)][resp.table]

\* C39 (BATCH is atomic): a BATCH in which an operation failed or raised
\* leaves the tables of the connection as they were, and a BATCH whose
\* operations all succeeded answers success.
C39_BatchAtomic ==
    [][ \A b \in Batches :
          OptimizedBatch(ClockCaller, b)
            => LET failed == \/ ~resp'.success
                             \/ \E i \in 1..Len(resp'.results) :
                                   ~resp'.results[i].success
               IN  /\ failed => connections' = connections
                   /\ ~failed => resp'.success
      ]_vars

====
